---- MODULE Spec2Model ----
(***************************************************************************)
(* Verification model of the DynamicDataStructures library:                *)
(*   Dictionary.c          sorted key/value dictionary                     *)
(*   DynamicStringArray.c  index of pointers + packed character buffer     *)
(*   BinaryBuilder.c / StringBuilder.c  growable byte / text buffer        *)
(*                                                                         *)
(* Conventions                                                             *)
(*  - C indices are kept 0-based; a C array a[i] is the sequence element   *)
(*    a[i + 1].                                                            *)
(*  - A heap block is the sequence of its bytes.                           *)
(*  - expansionRate is a float holding rate + 1.0.  The model keeps it in  *)
(*    halves (2 = 1.0, 3 = 1.5, 4 = 2.0), the values for which the float   *)
(*    product n * expansionRate is exact, so the truncating conversion     *)
(*    back to size_t is (n * halves) \div 2.                               *)
(*  - Every malloc/realloc/calloc may be denied.  An operation takes the   *)
(*    name of the allocation that is denied in this call ("none" for a     *)
(*    call in which every allocation succeeds).                            *)
(***************************************************************************)
EXTENDS Integers, Sequences, FiniteSets, TLC

\* ------------------------------------------------------------------ bounds
MaxKeyLen == 1        \* longest key handed to the dictionary
MaxDataLen == 1       \* longest value handed to the dictionary
MaxElements == 3      \* the entry array is never grown past this many slots

KeyByte == {0, 1, 2}  \* the bytes keys are made of
DataByte == {0, 1}    \* the bytes values are made of

SeqsUpTo(S, n) == UNION {[1..k -> S] : k \in 0..n}

\* sequences are built with the Sequences operators only, so that every one
\* of them is a tuple
RECURSIVE Repeat(_, _)
Repeat(v, n) == IF n <= 0 THEN <<>> ELSE <<v>> \o Repeat(v, n - 1)

Zeros(n) == Repeat(0, n)

Min(a, b) == IF a < b THEN a ELSE b
Max(a, b) == IF a > b THEN a ELSE b

\* n * expansionRate converted back to size_t
Expand(n, halves) == (n * halves) \div 2

\* ============================================================== Dictionary
\* An entry owns its key block and its data block, and no other pointer to
\* them exists while the entry is in the array, so the key and data fields
\* hold the blocks themselves.  Every block has at least one byte (the
\* terminator), so the empty sequence stands for the NULL pointer.
VARIABLES
    dict,     \* dictionary_t: entries, elementCount, maxElementCount, expansionRate
    dlast     \* the dictionary call that has not returned to the caller yet:
              \* op, key, whether the key was located, returned value
              \* ("idle" between calls)

NULL == <<>>

Keys == SeqsUpTo(KeyByte, MaxKeyLen)
DataBytes == SeqsUpTo(DataByte, MaxDataLen)
\* the _data/_dataSize argument pairs handed in: a pointer to bytes, or the
\* reserved value 0 (zero-fill) with a size; the reserved value 1 (leave the
\* block untouched) is modelled in WriteData but not handed in
DataArgs == {[data |-> "ptr", bytes |-> b, size |-> Len(b)] : b \in DataBytes}
       \cup {[data |-> "null", bytes |-> <<>>, size |-> n] : n \in 0..MaxDataLen}
Denials == {"none", "entries", "key", "data"}

ZeroEntry == [key |-> NULL, data |-> NULL, keyMaxSize |-> 0, dataMaxSize |-> 0,
              keySize |-> 0, dataSize |-> 0]

\* the bytes key[0..keySize) of an entry
EntryKey(e) == SubSeq(e.key, 1, e.keySize)
\* the bytes data[0..dataSize) of an entry
EntryData(e) == SubSeq(e.data, 1, e.dataSize)

\* CompareMemoryBlocks: the blocks are little-endian magnitudes, the shorter
\* one zero-extended; compared from the most significant byte down
RECURSIVE CompareFrom(_, _, _)
CompareFrom(A, B, i) ==
    IF i = 0 THEN 0
    ELSE LET a == IF Len(A) < i THEN 0 ELSE A[i]
             b == IF Len(B) < i THEN 0 ELSE B[i]
         IN IF a < b THEN -1 ELSE IF a > b THEN 1 ELSE CompareFrom(A, B, i - 1)

\* the comparison of the common length only
CompareMemoryBlocks_Short(A, B) == CompareFrom(A, B, Min(Len(A), Len(B)))

CompareMemoryBlocks(A, B) == CompareFrom(A, B, Max(Len(A), Len(B)))

\* the binary search loop of Dictionary_PickEntryIndex
RECURSIVE PickLoop(_, _, _, _, _, _)
PickLoop(d, key, left, right, picked, cmp) ==
    IF ~(left < right) THEN [result |-> cmp, pickedIndex |-> picked]
    ELSE LET mid == left + ((right - left) \div 2)
             c == CompareMemoryBlocks(key, EntryKey(d.entries[mid + 1]))
         IN IF c < 0 THEN PickLoop(d, key, left, mid, mid, c)
            ELSE IF c > 0 THEN PickLoop(d, key, mid + 1, right, mid, c)
            ELSE [result |-> 0, pickedIndex |-> mid]

\* the search that stops after its first comparison
Dictionary_PickEntryIndex_OneStep(d, key) ==
    IF d.elementCount = 0 THEN [result |-> -1, pickedIndex |-> 0]
    ELSE LET mid == d.elementCount \div 2
         IN [result |-> CompareMemoryBlocks(key, EntryKey(d.entries[mid + 1])),
             pickedIndex |-> mid]

Dictionary_PickEntryIndex(d, key) ==
    IF d.elementCount = 0 THEN [result |-> -1, pickedIndex |-> 0]
    ELSE PickLoop(d, key, 0, d.elementCount, 0, -1)

Dictionary_SetMinElements(d, minCount, denied) ==
    IF d.maxElementCount >= minCount THEN [ok |-> TRUE, d |-> d]
    ELSE IF denied THEN [ok |-> FALSE, d |-> d]
    ELSE LET n == Expand(minCount, d.expansionRate)
         IN [ok |-> TRUE,
             d |-> [d EXCEPT !.entries = d.entries \o Repeat(ZeroEntry, n - d.maxElementCount),
                             !.maxElementCount = n]]

Dictionary_ReserveElements(d, reserved, denied) ==
    IF d.maxElementCount < d.elementCount + reserved
    THEN Dictionary_SetMinElements(d, d.maxElementCount + reserved, denied)
    ELSE [ok |-> TRUE, d |-> d]

\* a store through _entry = &entries[idx]: entries with entries[idx] replaced by e
WithEntry_First(entries, idx, e) == <<e>> \o SubSeq(entries, 2, Len(entries))

WithEntry(entries, idx, e) ==
    SubSeq(entries, 1, idx) \o <<e>> \o SubSeq(entries, idx + 2, Len(entries))

\* the value a call returns: the data pointer of the entry, which may be NULL
DataPointer(e) == IF e.data = NULL THEN "NULL" ELSE "data"

\* the switch on _data: the block after the bytes are stored in it
WriteData_NoCopy(arg, grown) == grown

WriteData(arg, grown) ==
    LET rest == SubSeq(grown, arg.size + 2, Len(grown))
    IN CASE arg.data = "null" -> Zeros(arg.size + 1) \o rest
         [] arg.data = "one" -> grown
         [] OTHER -> arg.bytes \o <<0>> \o rest

\* the tail of Dictionary_Set, from the data expansion to the return
Dictionary_SetData(d, idx, arg, deny) ==
    LET e == d.entries[idx + 1]
        grow == e.dataMaxSize < arg.size
    IN IF grow /\ deny = "data" THEN [d |-> d, ret |-> "NULL"]
       ELSE LET grown == IF grow THEN SubSeq(e.data, 1, e.dataMaxSize) \o Zeros(arg.size + 1 - e.dataMaxSize)
                         ELSE e.data
                maxSize == IF grow THEN arg.size ELSE e.dataMaxSize
            IN IF grown = NULL /\ arg.data # "one" THEN [d |-> d, ret |-> "CRASH"]
               ELSE LET e2 == [e EXCEPT !.data = WriteData(arg, grown), !.dataMaxSize = maxSize, !.dataSize = arg.size]
                    IN [d |-> [d EXCEPT !.entries = WithEntry(d.entries, idx, e2)],
                        ret |-> DataPointer(e2)]

\* entries[idx..count] rotated right by one: the unused entries[count] moves
\* to idx
RotateRight(entries, idx, count) ==
    SubSeq(entries, 1, idx) \o <<entries[count + 1]>> \o SubSeq(entries, idx + 1, count)
        \o SubSeq(entries, count + 2, Len(entries))

\* Dictionary_Set for a key that was not found, from the store of the data
\* block of the new entry e1 = entries[idx] to the return
Dictionary_Set_NewData(d2, e1, idx, arg, deny) ==
    IF e1.data = NULL /\ deny = "data" THEN [d |-> d2, ret |-> "NULL"]
    ELSE LET e2 == IF e1.data = NULL
                   THEN [e1 EXCEPT !.data = Zeros(arg.size + 1), !.dataMaxSize = arg.size]
                   ELSE e1
             d3 == [d2 EXCEPT !.entries = WithEntry(d2.entries, idx, e2),
                              !.elementCount = d2.elementCount + 1]
         IN Dictionary_SetData(d3, idx, arg, deny)

\* Dictionary_Set for a key that was not found, from the store of the key
\* into the entry e = entries[idx] to the return
Dictionary_Set_NewKey(d1, e, idx, key, arg, deny) ==
    LET keyAlloc == e.key = NULL \/ e.keyMaxSize < Len(key)
    IN IF keyAlloc /\ deny = "key" THEN [d |-> d1, ret |-> "NULL"]
       ELSE LET kbytes == key \o <<0>> \o SubSeq(e.key, Len(key) + 2, Len(e.key))
                e1 == [e EXCEPT !.key = kbytes,
                                !.keyMaxSize = IF keyAlloc THEN Len(key) ELSE e.keyMaxSize,
                                !.keySize = Len(key)]
            IN Dictionary_Set_NewData([d1 EXCEPT !.entries = WithEntry(d1.entries, idx, e1)],
                                      e1, idx, arg, deny)

\* Dictionary_Set for a key that was not found, from the shift that frees
\* entries[idx] to the return; d has room for one more entry
Dictionary_Set_NewEntry(d, idx, key, arg, deny) ==
    LET shiftedCount == d.elementCount - idx
        d1 == IF shiftedCount > 0
              THEN [d EXCEPT !.entries = RotateRight(d.entries, idx, d.elementCount)]
              ELSE d
    IN Dictionary_Set_NewKey(d1, d1.entries[idx + 1], idx, key, arg, deny)

\* Dictionary_Set after its search returned pick
Dictionary_Set_Picked(d0, pick, key, arg, deny) ==
    IF pick.result = 0 THEN Dictionary_SetData(d0, pick.pickedIndex, arg, deny)
    ELSE LET r == Dictionary_ReserveElements(d0, 1, deny = "entries")
         IN IF ~r.ok THEN [d |-> d0, ret |-> "NULL"]
            ELSE Dictionary_Set_NewEntry(
                     r.d, IF pick.result = 1 THEN pick.pickedIndex + 1 ELSE pick.pickedIndex,
                     key, arg, deny)

Dictionary_Set(d0, key, arg, deny) ==
    Dictionary_Set_Picked(d0, Dictionary_PickEntryIndex(d0, key), key, arg, deny)

Dictionary_Get_Entry(d, key) ==
    LET pick == Dictionary_PickEntryIndex(d, key)
    IN IF pick.result # 0 THEN [found |-> FALSE, entry |-> ZeroEntry]
       ELSE [found |-> TRUE, entry |-> d.entries[pick.pickedIndex + 1]]

\* ret is the returned pointer, size what out_DataSize receives, bytes the
\* size bytes the returned pointer points to
Dictionary_Get(d, key) ==
    LET g == Dictionary_Get_Entry(d, key)
    IN IF ~g.found THEN [found |-> FALSE, ret |-> "NULL", size |-> 0, bytes |-> <<>>]
       ELSE [found |-> TRUE, ret |-> DataPointer(g.entry), size |-> g.entry.dataSize,
             bytes |-> EntryData(g.entry)]

\* the test of the linear scan of Dictionary_DeleteKey: same size, same bytes
SameKey_Prefix(e, key) == SubSeq(e.key, 1, Len(key)) = key

SameKey(e, key) == e.keySize = Len(key) /\ EntryKey(e) = key

\* entries[idx..count) rotated left by one: the deleted entries[idx] moves to
\* count - 1
RotateLeft(entries, idx, count) ==
    SubSeq(entries, 1, idx) \o SubSeq(entries, idx + 2, count) \o <<entries[idx + 1]>>
        \o SubSeq(entries, count + 1, Len(entries))

Dictionary_DeleteKey(d, key) ==
    LET hits == {i \in 0..(d.elementCount - 1) : SameKey(d.entries[i + 1], key)}
    IN IF hits = {} THEN [d |-> d, ret |-> FALSE]
       ELSE LET idx == CHOOSE i \in hits : \A j \in hits : i <= j
            IN [d |-> [d EXCEPT !.entries = RotateLeft(d.entries, idx, d.elementCount),
                                !.elementCount = d.elementCount - 1],
                ret |-> TRUE]

Dictionary_DeleteAllKeys(d) == [d EXCEPT !.elementCount = 0]

InitCounts == {1, 3}  \* the _minElementCount arguments of Dictionary_InitWithMinSize
InitRates == {3}      \* its _expansionRate argument 0.5, kept as rate + 1.0

Dictionary_InitWithMinSize(minCount, rate) ==
    [entries |-> Repeat(ZeroEntry, minCount), elementCount |-> 0,
     maxElementCount |-> minCount, expansionRate |-> rate]

Idle == [op |-> "idle", key |-> <<>>, found |-> FALSE, ret |-> "none"]

DictInit ==
    /\ \E n \in InitCounts, r \in InitRates : dict = Dictionary_InitWithMinSize(n, r)
    /\ dlast = Idle

DictSet ==
    \E key \in Keys, arg \in DataArgs, deny \in Denials :
        LET r == Dictionary_Set(dict, key, arg, deny)
        IN /\ dlast = Idle
           /\ r.d.maxElementCount <= MaxElements
           /\ dict' = r.d
           /\ dlast' = [op |-> "set", key |-> key,
                        found |-> Dictionary_PickEntryIndex(dict, key).result = 0, ret |-> r.ret]

DictDeleteKey ==
    \E key \in Keys :
        LET r == Dictionary_DeleteKey(dict, key)
        IN /\ dlast = Idle
           /\ dict' = r.d
           /\ dlast' = [op |-> "delete", key |-> key, found |-> r.ret,
                        ret |-> IF r.ret THEN "true" ELSE "false"]

DictDeleteAllKeys ==
    /\ dlast = Idle
    /\ dict' = Dictionary_DeleteAllKeys(dict)
    /\ dlast' = [op |-> "deleteall", key |-> <<>>, found |-> FALSE, ret |-> "none"]

\* the call returns to its caller; a call that dereferenced NULL never does
DictReturn ==
    /\ dlast # Idle
    /\ dlast.ret # "CRASH"
    /\ dlast' = Idle
    /\ UNCHANGED dict

DictNext == DictSet \/ DictDeleteKey \/ DictDeleteAllKeys \/ DictReturn

\* ==================================================== DynamicStringArray
\* The character buffer is a block at an address; the index holds absolute
\* addresses into it.  realloc either extends the block in place or returns
\* a block at the other address, so a pointer that is not rebased after a
\* move is left pointing into the old block.
VARIABLES
    dsa,      \* dynamicstringarray_t: array, buffer, elementCount, usedSize,
              \* maxElementCount, bufferSize, expansionRate
    dmem,     \* the bytes of the block at dsa.buffer
    slast     \* the string array call that has not returned to the caller yet:
              \* op, index, string argument, whether the buffer moved,
              \* returned value ("idle" between calls)

MaxStrLen == 2        \* longest _length handed to push and insert
MaxStrings == 3       \* the index is never grown past this many slots
MaxBuffer == 9        \* the character buffer is never grown past this many bytes

Char == {0, 1}        \* the bytes strings are made of; 0 is the terminator
StringArgs == SeqsUpTo(Char, MaxStrLen)
BufferBases == {16, 48}
SDenials == {"none", "array", "buffer"}

\* a byte or pointer of a malloc'ed block that was never written
Uninit == -1

OtherBase(b) == CHOOSE x \in BufferBases : x # b

\* memcpy/memmove into a block: bytes stored at offset off
MemWrite(mem, off, bytes) ==
    SubSeq(mem, 1, off) \o bytes \o SubSeq(mem, off + Len(bytes) + 1, Len(mem))

\* the bytes from index i of a block up to the terminator; a scan that leaves
\* the block ends in Uninit
RECURSIVE ScanStr(_, _)
ScanStr(mem, i) ==
    IF i > Len(mem) THEN <<Uninit>>
    ELSE IF mem[i] = 0 THEN <<>>
    ELSE <<mem[i]>> \o ScanStr(mem, i + 1)

\* the C string a pointer resolves to; a pointer outside the block resolves
\* to no string
CStr(o, mem, addr) ==
    IF addr < o.buffer \/ addr >= o.buffer + Len(mem) THEN <<Uninit>>
    ELSE ScanStr(mem, addr - o.buffer + 1)

strlen(o, mem, addr) == Len(CStr(o, mem, addr))

\* array[first..last) += delta
RECURSIVE AddFrom(_, _, _, _)
AddFrom(array, i, last, delta) ==
    IF i >= last THEN <<>> ELSE <<array[i + 1] + delta>> \o AddFrom(array, i + 1, last, delta)

Relocate_None(array, first, last, delta) == array

Relocate(array, first, last, delta) ==
    SubSeq(array, 1, first) \o AddFrom(array, first, last, delta) \o SubSeq(array, last + 1, Len(array))

DynamicStringArray_SetMinElements(o, minElementCount, denied) ==
    IF o.maxElementCount >= minElementCount THEN [ok |-> TRUE, o |-> o]
    ELSE IF denied THEN [ok |-> FALSE, o |-> o]
    ELSE LET n == Expand(minElementCount, o.expansionRate)
         IN [ok |-> TRUE,
             o |-> [o EXCEPT !.array = o.array \o Repeat(Uninit, n - o.maxElementCount),
                             !.maxElementCount = n]]

DynamicStringArray_SetMinBufferSize_NoRebase(o, mem, minBufferSize, denied, move) ==
    IF o.bufferSize >= minBufferSize THEN [ok |-> TRUE, o |-> o, mem |-> mem]
    ELSE IF denied THEN [ok |-> FALSE, o |-> o, mem |-> mem]
    ELSE LET n == Expand(minBufferSize, o.expansionRate)
             expanded == IF move THEN OtherBase(o.buffer) ELSE o.buffer
         IN [ok |-> TRUE,
             o |-> [o EXCEPT !.buffer = expanded, !.bufferSize = n],
             mem |-> mem \o Repeat(Uninit, n - o.bufferSize)]

DynamicStringArray_SetMinBufferSize(o, mem, minBufferSize, denied, move) ==
    IF o.bufferSize >= minBufferSize THEN [ok |-> TRUE, o |-> o, mem |-> mem]
    ELSE IF denied THEN [ok |-> FALSE, o |-> o, mem |-> mem]
    ELSE LET n == Expand(minBufferSize, o.expansionRate)
             expanded == IF move THEN OtherBase(o.buffer) ELSE o.buffer
             relocateOffset == expanded - o.buffer
         IN [ok |-> TRUE,
             o |-> [o EXCEPT !.buffer = expanded, !.bufferSize = n,
                             !.array = Relocate(o.array, 0, o.elementCount, relocateOffset)],
             mem |-> mem \o Repeat(Uninit, n - o.bufferSize)]

DynamicStringArray_ReserveElements(o, reservedElementCount, denied) ==
    IF (o.maxElementCount - o.elementCount) < reservedElementCount
    THEN DynamicStringArray_SetMinElements(o, o.maxElementCount + reservedElementCount, denied)
    ELSE [ok |-> TRUE, o |-> o]

DynamicStringArray_ReserveBufferSize(o, mem, reservedBufferSize, denied, move) ==
    IF (o.bufferSize - o.usedSize) < reservedBufferSize
    THEN DynamicStringArray_SetMinBufferSize(o, mem, o.bufferSize + reservedBufferSize, denied, move)
    ELSE [ok |-> TRUE, o |-> o, mem |-> mem]

DynamicStringArray_Clear(o) == [o EXCEPT !.elementCount = 0, !.usedSize = 0]

\* memchr(_string, 0, _length) and the cut of _length at the terminator found
RECURSIVE ActualLength(_, _)
ActualLength(string, i) ==
    IF i > Len(string) THEN Len(string)
    ELSE IF string[i] = 0 THEN i - 1
    ELSE ActualLength(string, i + 1)

\* the cut that ignores a terminator inside the first _length bytes
Truncated_Whole(string) == string

Truncated(string) == SubSeq(string, 1, ActualLength(string, 1))

\* array with array[idx] replaced by p
WithPointer(array, idx, p) ==
    SubSeq(array, 1, idx) \o <<p>> \o SubSeq(array, idx + 2, Len(array))

DynamicStringArray_PushSubString(o0, mem0, string, deny, move) ==
    IF Len(string) = 0 \/ string[1] = 0 THEN [ok |-> FALSE, o |-> o0, mem |-> mem0]
    ELSE LET r1 == DynamicStringArray_ReserveElements(o0, 1, deny = "array")
         IN IF ~r1.ok THEN [ok |-> FALSE, o |-> o0, mem |-> mem0]
            ELSE
            LET t == Truncated(string)
                size == Len(t) + 1
                r2 == DynamicStringArray_ReserveBufferSize(r1.o, mem0, size, deny = "buffer", move)
            IN IF ~r2.ok THEN [ok |-> FALSE, o |-> r1.o, mem |-> mem0]
               ELSE
               LET o == r2.o
                   insertedString == o.buffer + o.usedSize
               IN [ok |-> TRUE,
                   o |-> [o EXCEPT !.usedSize = o.usedSize + size,
                                   !.array = WithPointer(o.array, o.elementCount, insertedString),
                                   !.elementCount = o.elementCount + 1],
                   mem |-> MemWrite(r2.mem, o.usedSize, t \o <<0>>)]

DynamicStringArray_Pop(o, mem) ==
    IF o.elementCount = 0 THEN [ok |-> FALSE, o |-> o]
    ELSE [ok |-> TRUE,
          o |-> [o EXCEPT !.elementCount = o.elementCount - 1,
                          !.usedSize = o.usedSize - (strlen(o, mem, o.array[o.elementCount]) + 1)]]

\* memmove(&array[index + 1], &array[index], count * sizeof(char *))
ShiftArrayRight_None(array, index, count) == array

ShiftArrayRight(array, index, count) ==
    SubSeq(array, 1, index + 1) \o SubSeq(array, index + 1, index + count)
        \o SubSeq(array, index + count + 2, Len(array))

\* memmove(&array[index], &array[index + 1], count * sizeof(char *))
ShiftArrayLeft_None(array, index, count) == array

ShiftArrayLeft(array, index, count) ==
    SubSeq(array, 1, index) \o SubSeq(array, index + 2, index + count + 1)
        \o SubSeq(array, index + count + 1, Len(array))

DynamicStringArray_InsertSubString(o0, mem0, index, string, deny, move) ==
    IF Len(string) = 0 \/ string[1] = 0 \/ index >= o0.elementCount
    THEN [ok |-> FALSE, o |-> o0, mem |-> mem0]
    ELSE LET r1 == DynamicStringArray_ReserveElements(o0, 1, deny = "array")
         IN IF ~r1.ok THEN [ok |-> FALSE, o |-> o0, mem |-> mem0]
            ELSE
            LET t == Truncated(string)
                size == Len(t) + 1
                r2 == DynamicStringArray_ReserveBufferSize(r1.o, mem0, size, deny = "buffer", move)
            IN IF ~r2.ok THEN [ok |-> FALSE, o |-> r1.o, mem |-> mem0]
               ELSE
               LET o == r2.o
                   insertedString == o.array[index + 1]
                   at == insertedString - o.buffer
                   shiftedSize == o.usedSize + o.buffer - insertedString
                   moved == MemWrite(r2.mem, at + size, SubSeq(r2.mem, at + 1, at + shiftedSize))
                   shiftedCount == o.elementCount - index
                   elementCount == o.elementCount + 1
                   shifted == Relocate(ShiftArrayRight(o.array, index, shiftedCount),
                                       index + 1, elementCount, size)
               IN [ok |-> TRUE,
                   o |-> [o EXCEPT !.usedSize = o.usedSize + size,
                                   !.elementCount = elementCount,
                                   !.array = WithPointer(shifted, index, insertedString)],
                   mem |-> MemWrite(moved, at, t \o <<0>>)]

DynamicStringArray_Delete(o, mem, deletedElementIndex) ==
    IF deletedElementIndex >= o.elementCount THEN [ok |-> FALSE, o |-> o, mem |-> mem]
    ELSE LET bytesDeleted == strlen(o, mem, o.array[deletedElementIndex + 1]) + 1
             elementCount == o.elementCount - 1
             shiftedElementCount == elementCount - deletedElementIndex
         IN IF shiftedElementCount = 0
            THEN [ok |-> TRUE,
                  o |-> [o EXCEPT !.elementCount = elementCount, !.usedSize = o.usedSize - bytesDeleted],
                  mem |-> mem]
            ELSE LET to == o.array[deletedElementIndex + 1] - o.buffer
                     from == o.array[deletedElementIndex + 2] - o.buffer
                     n == o.usedSize - from
                 IN [ok |-> TRUE,
                     o |-> [o EXCEPT !.elementCount = elementCount,
                                     !.usedSize = o.usedSize - bytesDeleted,
                                     !.array = Relocate(ShiftArrayLeft(o.array, deletedElementIndex, shiftedElementCount),
                                                        deletedElementIndex, elementCount, -bytesDeleted)],
                     mem |-> MemWrite(mem, to, SubSeq(mem, from + 1, from + n))]

SInitCounts == {1}        \* the _minElementCount argument of DynamicStringArray_InitAll
SInitSizes == {2, 4}      \* its _minBufferSize arguments
SInitRates == {2, 3}      \* its _expansionRate arguments 0.0 and 0.5, kept as rate + 1.0

DynamicStringArray_InitAll(minElementCount, minBufferSize, rate, base) ==
    [o |-> [array |-> Repeat(Uninit, minElementCount), buffer |-> base,
            elementCount |-> 0, usedSize |-> 0, maxElementCount |-> minElementCount,
            bufferSize |-> minBufferSize, expansionRate |-> rate],
     mem |-> Repeat(Uninit, minBufferSize)]

SIdle == [op |-> "idle", index |-> 0, string |-> <<>>, moved |-> FALSE, ret |-> "none"]

DsaInit ==
    /\ \E n \in SInitCounts, b \in SInitSizes, r \in SInitRates, base \in BufferBases :
          LET i == DynamicStringArray_InitAll(n, b, r, base)
          IN dsa = i.o /\ dmem = i.mem
    /\ slast = SIdle

Bool(b) == IF b THEN "true" ELSE "false"

DsaPush ==
    \E string \in StringArgs, deny \in SDenials, move \in BOOLEAN :
        LET r == DynamicStringArray_PushSubString(dsa, dmem, string, deny, move)
        IN /\ slast = SIdle
           /\ r.o.maxElementCount <= MaxStrings
           /\ r.o.bufferSize <= MaxBuffer
           /\ dsa' = r.o
           /\ dmem' = r.mem
           /\ slast' = [op |-> "push", index |-> dsa.elementCount, string |-> string,
                        moved |-> r.o.buffer # dsa.buffer, ret |-> Bool(r.ok)]

DsaInsert ==
    \E index \in 0..MaxStrings, string \in StringArgs, deny \in SDenials, move \in BOOLEAN :
        LET r == DynamicStringArray_InsertSubString(dsa, dmem, index, string, deny, move)
        IN /\ slast = SIdle
           /\ r.o.maxElementCount <= MaxStrings
           /\ r.o.bufferSize <= MaxBuffer
           /\ dsa' = r.o
           /\ dmem' = r.mem
           /\ slast' = [op |-> "insert", index |-> index, string |-> string,
                        moved |-> r.o.buffer # dsa.buffer, ret |-> Bool(r.ok)]

DsaDelete ==
    \E index \in 0..MaxStrings :
        LET r == DynamicStringArray_Delete(dsa, dmem, index)
        IN /\ slast = SIdle
           /\ dsa' = r.o
           /\ dmem' = r.mem
           /\ slast' = [op |-> "delete", index |-> index, string |-> <<>>,
                        moved |-> FALSE, ret |-> Bool(r.ok)]

DsaPop ==
    LET r == DynamicStringArray_Pop(dsa, dmem)
    IN /\ slast = SIdle
       /\ dsa' = r.o
       /\ dmem' = dmem
       /\ slast' = [op |-> "pop", index |-> 0, string |-> <<>>, moved |-> FALSE, ret |-> Bool(r.ok)]

DsaClear ==
    /\ slast = SIdle
    /\ dsa' = DynamicStringArray_Clear(dsa)
    /\ dmem' = dmem
    /\ slast' = [op |-> "clear", index |-> 0, string |-> <<>>, moved |-> FALSE, ret |-> "none"]

\* the call returns to its caller
DsaReturn ==
    /\ slast # SIdle
    /\ slast' = SIdle
    /\ UNCHANGED <<dsa, dmem>>

DsaNext == DsaPush \/ DsaInsert \/ DsaDelete \/ DsaPop \/ DsaClear \/ DsaReturn


\* ================================================ BinaryBuilder/StringBuilder
\* bb is the binarybuilder_t (a stringbuilder_t has the same fields, its
\* string field is data): data, writePtr and endPtr are addresses, bmem the
\* bytes of the block at data.  bown tells whose block that is: "heap" for a
\* block of the allocator, "caller" for a buffer handed to
\* BinaryBuilder_InitUsingBuffer, "released" once a caller's buffer was passed
\* to realloc or free, "freed" after BinaryBuilder_FreeBuffer freed the block.
VARIABLES bb, bmem, bown, blast

BbMaxCap == 5             \* largest capacity a run lets a BinaryBuilder reach
SbMaxCap == 7             \* largest capacity a run lets a StringBuilder reach
MaxSrcLen == 2            \* longest source handed to a write

BByte == {1, 2}
SbChar == {1, 2}
Sources == SeqsUpTo(BByte, MaxSrcLen)
StringSources == SeqsUpTo(SbChar, MaxSrcLen)

\* (uintptr_t)-1
UINTPTR_MAX == -1

\* a bool converted to an integer
true == 1
false == 0

BinaryBuilder_GetWriteOffset(b) == b.writePtr - b.data
BinaryBuilder_GetCurrentSize(b) == b.endPtr - b.data

BinaryBuilder_SetMinSize(b, mem, minCapacity, denied, move) ==
    IF b.capacity >= minCapacity THEN [b |-> b, mem |-> mem, ret |-> true, realloc |-> FALSE]
    ELSE IF b.expansionRate <= 2 THEN [b |-> b, mem |-> mem, ret |-> false, realloc |-> FALSE]
    ELSE IF denied THEN [b |-> b, mem |-> mem, ret |-> false, realloc |-> TRUE]
    ELSE LET n == Expand(minCapacity, b.expansionRate)
             expandedBuffer == IF move THEN OtherBase(b.data) ELSE b.data
             offset == expandedBuffer - b.data
         IN [b |-> [b EXCEPT !.data = expandedBuffer, !.capacity = n,
                             !.writePtr = b.writePtr + offset,
                             !.endPtr = b.endPtr + offset],
             mem |-> mem \o Repeat(Uninit, n - Len(mem)),
             ret |-> true, realloc |-> TRUE]

BinaryBuilder_ReserveSize_Tight(b, mem, reservedSize, denied, move) ==
    IF b.data + b.capacity < b.endPtr + reservedSize
    THEN IF b.expansionRate <= 2
         THEN [b |-> b, mem |-> mem, ret |-> UINTPTR_MAX, realloc |-> FALSE]
         ELSE LET r == BinaryBuilder_SetMinSize(b, mem, (b.endPtr - b.data) + reservedSize, denied, move)
              IN IF r.ret = false THEN [r EXCEPT !.ret = UINTPTR_MAX]
                 ELSE [r EXCEPT !.ret = BinaryBuilder_GetWriteOffset(r.b)]
    ELSE [b |-> b, mem |-> mem, ret |-> BinaryBuilder_GetWriteOffset(b), realloc |-> FALSE]

BinaryBuilder_ReserveSize(b, mem, reservedSize, denied, move) ==
    IF b.data + b.capacity < b.endPtr + reservedSize
    THEN IF b.expansionRate <= 2
         THEN [b |-> b, mem |-> mem, ret |-> UINTPTR_MAX, realloc |-> FALSE]
         ELSE LET r == BinaryBuilder_SetMinSize(b, mem, b.capacity + reservedSize, denied, move)
              IN IF r.ret = false THEN [r EXCEPT !.ret = UINTPTR_MAX]
                 ELSE [r EXCEPT !.ret = BinaryBuilder_GetWriteOffset(r.b)]
    ELSE [b |-> b, mem |-> mem, ret |-> BinaryBuilder_GetWriteOffset(b), realloc |-> FALSE]

BinaryBuilder_SetWriteOffset(b, offset) ==
    LET newPtr == b.data + offset
    IN IF newPtr > b.endPtr THEN [b |-> b, ret |-> false]
       ELSE [b |-> [b EXCEPT !.writePtr = newPtr], ret |-> true]

BinaryBuilder_SetUsedSize_Unchecked(b, offset) ==
    [b |-> [b EXCEPT !.endPtr = b.data + offset,
                     !.writePtr = Min(b.writePtr, b.data + offset)],
     ret |-> true]

BinaryBuilder_SetUsedSize(b, offset) ==
    IF offset >= b.capacity THEN [b |-> b, ret |-> false]
    ELSE [b |-> [b EXCEPT !.endPtr = b.data + offset,
                          !.writePtr = Min(b.writePtr, b.data + offset)],
          ret |-> true]

\* the deletion that moves the pointers and leaves the tail where it is
BinaryBuilder_Delete_NoShift(b, mem, length0) ==
    LET length == Min(length0, b.writePtr - b.data)
    IN IF length = 0 THEN [b |-> b, mem |-> mem, ret |-> 0]
       ELSE [b |-> [b EXCEPT !.writePtr = b.writePtr - length,
                             !.endPtr = b.endPtr - length],
             mem |-> mem,
             ret |-> length]

BinaryBuilder_Delete(b, mem, length0) ==
    LET leftHandLength == b.writePtr - b.data
        length == Min(length0, leftHandLength)
        w == b.writePtr - b.data
        e == b.endPtr - b.data
    IN IF length = 0 THEN [b |-> b, mem |-> mem, ret |-> 0]
       ELSE [b |-> [b EXCEPT !.writePtr = b.writePtr - length,
                             !.endPtr = b.endPtr - length],
             mem |-> IF b.writePtr < b.endPtr
                     THEN MemWrite(mem, w - length, SubSeq(mem, w + 1, e))
                     ELSE mem,
             ret |-> length]

BinaryBuilder_SetByte(b, mem, byte, denied, move) ==
    LET r == BinaryBuilder_ReserveSize(b, mem, 1, denied, move)
    IN IF r.ret = UINTPTR_MAX THEN [r EXCEPT !.ret = false]
       ELSE LET newWritePtr == r.b.writePtr + 1
            IN [b |-> [r.b EXCEPT !.writePtr = newWritePtr,
                                  !.endPtr = Max(r.b.endPtr, newWritePtr)],
                mem |-> MemWrite(r.mem, r.b.writePtr - r.b.data, <<byte>>),
                ret |-> true, realloc |-> r.realloc]

\* a source is a pointer to bytes (a value above 0xFF) or a fill byte
PtrSource(bytes) == [ptr |-> TRUE, bytes |-> bytes, fill |-> 0]
FillSource(byte) == [ptr |-> FALSE, bytes |-> <<>>, fill |-> byte]

\* the length bytes a write takes from its source
SourceBytes(source, length) ==
    IF source.ptr THEN SubSeq(source.bytes, 1, length) ELSE Repeat(source.fill, length)

\* the write that stores what fits before it reports the failed reservation
BinaryBuilder_SetBytes_Partial(b, mem, source, length, denied, move) ==
    IF length <= 0 THEN [b |-> b, mem |-> mem, ret |-> false, realloc |-> FALSE]
    ELSE LET r == BinaryBuilder_ReserveSize(b, mem, length, denied, move)
             fits == Min(length, b.capacity - (b.writePtr - b.data))
             newWritePtr == r.b.writePtr + length
         IN IF r.ret = UINTPTR_MAX
            THEN [r EXCEPT !.ret = false,
                           !.mem = MemWrite(mem, b.writePtr - b.data, SourceBytes(source, fits))]
            ELSE [b |-> [r.b EXCEPT !.writePtr = newWritePtr,
                                    !.endPtr = Max(r.b.endPtr, newWritePtr)],
                  mem |-> MemWrite(r.mem, r.b.writePtr - r.b.data, SourceBytes(source, length)),
                  ret |-> true, realloc |-> r.realloc]

BinaryBuilder_SetBytes(b, mem, source, length, denied, move) ==
    IF length <= 0 THEN [b |-> b, mem |-> mem, ret |-> false, realloc |-> FALSE]
    ELSE LET r == BinaryBuilder_ReserveSize(b, mem, length, denied, move)
         IN IF r.ret = UINTPTR_MAX THEN [r EXCEPT !.ret = false]
            ELSE LET newWritePtr == r.b.writePtr + length
                 IN [b |-> [r.b EXCEPT !.writePtr = newWritePtr,
                                       !.endPtr = Max(r.b.endPtr, newWritePtr)],
                     mem |-> MemWrite(r.mem, r.b.writePtr - r.b.data, SourceBytes(source, length)),
                     ret |-> true, realloc |-> r.realloc]

BinaryBuilder_InsertByte(b, mem, byte, denied, move) ==
    LET r == BinaryBuilder_ReserveSize(b, mem, 1, denied, move)
    IN IF r.ret = UINTPTR_MAX THEN [r EXCEPT !.ret = false]
       ELSE LET w == r.b.writePtr - r.b.data
                e == r.b.endPtr - r.b.data
                moved == IF r.b.writePtr < r.b.endPtr
                         THEN MemWrite(r.mem, w + 1, SubSeq(r.mem, w + 1, e))
                         ELSE r.mem
            IN [b |-> [r.b EXCEPT !.writePtr = r.b.writePtr + 1,
                                  !.endPtr = r.b.endPtr + 1],
                mem |-> MemWrite(moved, w, <<byte>>),
                ret |-> true, realloc |-> r.realloc]

\* the insertion that writes the new bytes without moving the tail first
BinaryBuilder_InsertBytes_Overwrite(b, mem, source, length, denied, move) ==
    IF length <= 0 THEN [b |-> b, mem |-> mem, ret |-> false, realloc |-> FALSE]
    ELSE LET r == BinaryBuilder_ReserveSize(b, mem, length * 2, denied, move)
         IN IF r.ret = UINTPTR_MAX THEN [r EXCEPT !.ret = false]
            ELSE [b |-> [r.b EXCEPT !.writePtr = r.b.writePtr + length,
                                    !.endPtr = r.b.endPtr + length],
                  mem |-> MemWrite(r.mem, r.b.writePtr - r.b.data, SourceBytes(source, length)),
                  ret |-> true, realloc |-> r.realloc]

BinaryBuilder_InsertBytes(b, mem, source, length, denied, move) ==
    IF b.writePtr >= b.endPtr THEN BinaryBuilder_SetBytes(b, mem, source, length, denied, move)
    ELSE IF length <= 0 THEN [b |-> b, mem |-> mem, ret |-> false, realloc |-> FALSE]
    ELSE LET r == BinaryBuilder_ReserveSize(b, mem, IF source.ptr THEN length * 2 ELSE length,
                                            denied, move)
         IN IF r.ret = UINTPTR_MAX THEN [r EXCEPT !.ret = false]
            ELSE LET w == r.b.writePtr - r.b.data
                     e == r.b.endPtr - r.b.data
                     \* the source is parked behind the moved tail first
                     stored == IF source.ptr
                               THEN MemWrite(r.mem, e + length, SourceBytes(source, length))
                               ELSE r.mem
                     moved == MemWrite(stored, w + length, SubSeq(stored, w + 1, e))
                     written == IF source.ptr
                                THEN SubSeq(moved, e + length + 1, e + 2 * length)
                                ELSE SourceBytes(source, length)
                 IN [b |-> [r.b EXCEPT !.writePtr = r.b.writePtr + length,
                                       !.endPtr = r.b.endPtr + length],
                     mem |-> MemWrite(moved, w, written),
                     ret |-> true, realloc |-> r.realloc]

\* the clear that also gives the capacity back
BinaryBuilder_Clear_Release(b) ==
    [b EXCEPT !.writePtr = b.data, !.endPtr = b.data, !.capacity = 0]

BinaryBuilder_Clear(b) == [b EXCEPT !.writePtr = b.data, !.endPtr = b.data]

\* free(data) happens when the result says freed
BinaryBuilder_FreeBuffer_Always(b) == [b |-> [b EXCEPT !.data = 0], freed |-> TRUE]

BinaryBuilder_FreeBuffer(b) ==
    IF b.expansionRate >= 2 /\ b.data # 0
    THEN [b |-> [b EXCEPT !.data = 0], freed |-> TRUE]
    ELSE [b |-> b, freed |-> FALSE]

\* called on a builder variable that holds no buffer yet (data is NULL)
BinaryBuilder_InitWithMinSize(minCapacity, rate, base) ==
    [b |-> [capacity |-> minCapacity, data |-> base, writePtr |-> base, endPtr |-> base,
            expansionRate |-> rate],
     mem |-> Repeat(Uninit, minCapacity)]

\* called on a builder variable that holds no buffer yet; the caller's buffer
\* is at address base and holds whatever the caller left in it
BinaryBuilder_InitUsingBuffer(base, capacity) ==
    [b |-> [capacity |-> capacity, data |-> base, writePtr |-> base, endPtr |-> base,
            expansionRate |-> 0],
     mem |-> Repeat(Uninit, capacity)]

\* ------------------------------------------------------------ StringBuilder
StringBuilder_ReserveStringLength(b, mem, length, denied, move) ==
    BinaryBuilder_ReserveSize(b, mem, length + 1, denied, move)

StringBuilder_SetWriteOffset(b, offset) == BinaryBuilder_SetWriteOffset(b, offset)

StringBuilder_InitWithMinSize(minCapacity, rate, base) ==
    BinaryBuilder_InitWithMinSize(minCapacity, rate, base)

\* *endPtr = 0
Terminate(b, mem) == MemWrite(mem, b.endPtr - b.data, <<0>>)

StringBuilder_Delete(b, mem, length0) ==
    LET r == BinaryBuilder_Delete(b, mem, length0)
    IN IF r.ret # 0 THEN [r EXCEPT !.mem = Terminate(r.b, r.mem)] ELSE r

StringBuilder_InsertCharacter(b, mem, character, denied, move) ==
    LET initialOffset == b.writePtr - b.data
        r == StringBuilder_ReserveStringLength(b, mem, 1, denied, move)
    IN IF r.ret = UINTPTR_MAX THEN r
       ELSE LET w == r.b.writePtr - r.b.data
                e == r.b.endPtr - r.b.data
                moved == IF r.b.writePtr < r.b.endPtr
                         THEN MemWrite(r.mem, w + 1, SubSeq(r.mem, w + 1, e))
                         ELSE r.mem
                nb == [r.b EXCEPT !.writePtr = r.b.writePtr + 1, !.endPtr = r.b.endPtr + 1]
            IN [b |-> nb, mem |-> Terminate(nb, MemWrite(moved, w, <<character>>)),
                ret |-> initialOffset, realloc |-> r.realloc]

\* BinaryBuilder_InsertBytes returns a bool, so its result is 0 or 1 and the
\* comparison with UINTPTR_MAX never holds
StringBuilder_InsertCharacters(b, mem, characters, length, denied, move) ==
    LET initialOffset == b.writePtr - b.data
        r == StringBuilder_ReserveStringLength(b, mem, length * 2, denied, move)
    IN IF r.ret = UINTPTR_MAX THEN r
       ELSE LET i == BinaryBuilder_InsertBytes(r.b, r.mem, PtrSource(characters), length, denied, move)
            IN IF i.ret = UINTPTR_MAX THEN [i EXCEPT !.realloc = r.realloc]
               ELSE [b |-> i.b, mem |-> Terminate(i.b, i.mem),
                     ret |-> initialOffset, realloc |-> r.realloc \/ i.realloc]

\* strlen(_str) of a source without zero bytes is its length
StringBuilder_InsertString(b, mem, str, denied, move) ==
    StringBuilder_InsertCharacters(b, mem, str, Len(str), denied, move)

StringBuilder_Clear(b, mem) ==
    LET nb == BinaryBuilder_Clear(b)
    IN [b |-> nb, mem |-> Terminate(nb, mem)]

\* -------------------------------------------------------------- the calls
BbInitCaps == {2, 5}      \* the _minCapacity arguments of the BinaryBuilder initialisers
SbInitCaps == {2, 6}      \* the _minCapacity arguments of StringBuilder_InitWithMinSize
BInitRates == {2, 3}      \* the _expansionRate arguments 0.0 and 0.5, kept as rate + 1.0

BIdle == [op |-> "idle", src |-> <<>>, n |-> 0, ret |-> 0, ok |-> FALSE, realloc |-> FALSE]

\* whose block data is after a call that did or did not hand it to realloc
Owner(own, realloc) == IF realloc /\ own = "caller" THEN "released" ELSE own

BbInitHeap ==
    \E c \in BbInitCaps, rate \in BInitRates, base \in BufferBases :
        /\ bb = BinaryBuilder_InitWithMinSize(c, rate, base).b
        /\ bmem = BinaryBuilder_InitWithMinSize(c, rate, base).mem
        /\ bown = "heap"
        /\ blast = BIdle

BbInitFixed ==
    \E c \in BbInitCaps, base \in BufferBases :
        /\ bb = BinaryBuilder_InitUsingBuffer(base, c).b
        /\ bmem = BinaryBuilder_InitUsingBuffer(base, c).mem
        /\ bown = "caller"
        /\ blast = BIdle

BbInit == BbInitHeap \/ BbInitFixed

SbInit ==
    \E c \in SbInitCaps, rate \in BInitRates, base \in BufferBases :
        /\ bb = StringBuilder_InitWithMinSize(c, rate, base).b
        /\ bmem = StringBuilder_InitWithMinSize(c, rate, base).mem
        /\ bown = "heap"
        /\ blast = BIdle

BReady == blast = BIdle /\ bown # "freed"

\* a call that may reallocate: r is its result
BApply(r, op, src, n, ok, maxCap) ==
    /\ r.b.capacity <= maxCap
    /\ bb' = r.b
    /\ bmem' = r.mem
    /\ bown' = Owner(bown, r.realloc)
    /\ blast' = [op |-> op, src |-> src, n |-> n, ret |-> r.ret, ok |-> ok, realloc |-> r.realloc]

BbReserveSize ==
    /\ BReady
    /\ \E n \in 0..3, denied \in BOOLEAN, move \in BOOLEAN :
         LET r == BinaryBuilder_ReserveSize(bb, bmem, n, denied, move)
         IN BApply(r, "reserve", <<>>, n, r.ret # UINTPTR_MAX, BbMaxCap)

BbSetWriteOffset ==
    /\ BReady
    /\ \E offset \in 0..BbMaxCap :
         LET r == BinaryBuilder_SetWriteOffset(bb, offset)
         IN /\ bb' = r.b
            /\ blast' = [op |-> "setWriteOffset", src |-> <<>>, n |-> offset,
                         ret |-> r.ret, ok |-> r.ret = true, realloc |-> FALSE]
            /\ UNCHANGED <<bmem, bown>>

BbSetUsedSize ==
    /\ BReady
    /\ \E offset \in 0..BbMaxCap :
         LET r == BinaryBuilder_SetUsedSize(bb, offset)
         IN /\ bb' = r.b
            /\ blast' = [op |-> "setUsedSize", src |-> <<>>, n |-> offset,
                         ret |-> r.ret, ok |-> r.ret = true, realloc |-> FALSE]
            /\ UNCHANGED <<bmem, bown>>

BbDelete ==
    /\ BReady
    /\ \E length \in 0..2 :
         LET r == BinaryBuilder_Delete(bb, bmem, length)
         IN /\ bb' = r.b
            /\ bmem' = r.mem
            /\ blast' = [op |-> "delete", src |-> <<>>, n |-> length, ret |-> r.ret, ok |-> TRUE, realloc |-> FALSE]
            /\ UNCHANGED bown

BbSetByte ==
    /\ BReady
    /\ \E byte \in BByte, denied \in BOOLEAN, move \in BOOLEAN :
         LET r == BinaryBuilder_SetByte(bb, bmem, byte, denied, move)
         IN BApply(r, "setByte", <<byte>>, 1, r.ret = true, BbMaxCap)

BbSetBytes ==
    /\ BReady
    /\ \E src \in Sources, denied \in BOOLEAN, move \in BOOLEAN :
         LET r == BinaryBuilder_SetBytes(bb, bmem, PtrSource(src), Len(src), denied, move)
         IN BApply(r, "setBytes", src, Len(src), r.ret = true, BbMaxCap)

BbFillBytes ==
    /\ BReady
    /\ \E byte \in BByte, length \in 0..MaxSrcLen, denied \in BOOLEAN, move \in BOOLEAN :
         LET r == BinaryBuilder_SetBytes(bb, bmem, FillSource(byte), length, denied, move)
         IN BApply(r, "setBytes", Repeat(byte, length), length, r.ret = true, BbMaxCap)

BbInsertByte ==
    /\ BReady
    /\ \E byte \in BByte, denied \in BOOLEAN, move \in BOOLEAN :
         LET r == BinaryBuilder_InsertByte(bb, bmem, byte, denied, move)
         IN BApply(r, "insertByte", <<byte>>, 1, r.ret = true, BbMaxCap)

BbInsertBytes ==
    /\ BReady
    /\ \E src \in Sources, denied \in BOOLEAN, move \in BOOLEAN :
         LET r == BinaryBuilder_InsertBytes(bb, bmem, PtrSource(src), Len(src), denied, move)
         IN BApply(r, "insertBytes", src, Len(src), r.ret = true, BbMaxCap)

BbInsertFill ==
    /\ BReady
    /\ \E byte \in BByte, length \in 0..MaxSrcLen, denied \in BOOLEAN, move \in BOOLEAN :
         LET r == BinaryBuilder_InsertBytes(bb, bmem, FillSource(byte), length, denied, move)
         IN BApply(r, "insertBytes", Repeat(byte, length), length, r.ret = true, BbMaxCap)

BbClear ==
    /\ BReady
    /\ bb' = BinaryBuilder_Clear(bb)
    /\ blast' = [op |-> "clear", src |-> <<>>, n |-> 0, ret |-> 0, ok |-> TRUE, realloc |-> FALSE]
    /\ UNCHANGED <<bmem, bown>>

BbFreeBuffer ==
    /\ BReady
    /\ LET r == BinaryBuilder_FreeBuffer(bb)
       IN /\ bb' = r.b
          /\ bown' = IF ~r.freed THEN bown
                     ELSE IF bown = "caller" THEN "released" ELSE "freed"
          /\ blast' = [op |-> "freeBuffer", src |-> <<>>, n |-> 0, ret |-> 0, ok |-> TRUE, realloc |-> FALSE]
          /\ UNCHANGED bmem

BReturn ==
    /\ blast # BIdle
    /\ blast' = BIdle
    /\ UNCHANGED <<bb, bmem, bown>>

BbNext ==
    \/ BbReserveSize
    \/ BbSetWriteOffset
    \/ BbSetUsedSize
    \/ BbDelete
    \/ BbSetByte
    \/ BbSetBytes
    \/ BbFillBytes
    \/ BbInsertByte
    \/ BbInsertBytes
    \/ BbInsertFill
    \/ BbClear
    \/ BbFreeBuffer
    \/ BReturn

SbInsertCharacter ==
    /\ BReady
    /\ \E character \in SbChar, denied \in BOOLEAN, move \in BOOLEAN :
         LET r == StringBuilder_InsertCharacter(bb, bmem, character, denied, move)
         IN BApply(r, "insertCharacter", <<character>>, 1, r.ret # UINTPTR_MAX, SbMaxCap)

SbInsertCharacters ==
    /\ BReady
    /\ \E src \in StringSources, length \in 0..MaxSrcLen, denied \in BOOLEAN, move \in BOOLEAN :
         /\ length <= Len(src)
         /\ LET r == StringBuilder_InsertCharacters(bb, bmem, src, length, denied, move)
            IN BApply(r, "insertCharacters", SubSeq(src, 1, length), length, r.ret # UINTPTR_MAX, SbMaxCap)

SbInsertString ==
    /\ BReady
    /\ \E str \in StringSources, denied \in BOOLEAN, move \in BOOLEAN :
         LET r == StringBuilder_InsertString(bb, bmem, str, denied, move)
         IN BApply(r, "insertString", str, Len(str), r.ret # UINTPTR_MAX, SbMaxCap)

SbDelete ==
    /\ BReady
    /\ \E length \in 0..2 :
         LET r == StringBuilder_Delete(bb, bmem, length)
         IN /\ bb' = r.b
            /\ bmem' = r.mem
            /\ blast' = [op |-> "delete", src |-> <<>>, n |-> length, ret |-> r.ret, ok |-> TRUE, realloc |-> FALSE]
            /\ UNCHANGED bown

SbSetWriteOffset ==
    /\ BReady
    /\ \E offset \in 0..SbMaxCap :
         LET r == StringBuilder_SetWriteOffset(bb, offset)
         IN /\ bb' = r.b
            /\ blast' = [op |-> "setWriteOffset", src |-> <<>>, n |-> offset,
                         ret |-> r.ret, ok |-> r.ret = true, realloc |-> FALSE]
            /\ UNCHANGED <<bmem, bown>>

SbClear ==
    /\ BReady
    /\ bb' = StringBuilder_Clear(bb, bmem).b
    /\ bmem' = StringBuilder_Clear(bb, bmem).mem
    /\ blast' = [op |-> "clear", src |-> <<>>, n |-> 0, ret |-> 0, ok |-> TRUE, realloc |-> FALSE]
    /\ UNCHANGED bown

SbNext ==
    \/ SbInsertCharacter
    \/ SbInsertCharacters
    \/ SbInsertString
    \/ SbDelete
    \/ SbSetWriteOffset
    \/ SbClear
    \/ BReturn

\* ============================================ the comparator and the search
\* cmp holds three blocks handed to CompareMemoryBlocks and, once the calls
\* are made, their results; search holds a dictionary and a key handed to
\* Dictionary_PickEntryIndex and, once the call is made, its result.
VARIABLES cmp, search

MaxBlockLen == 3          \* longest block handed to the comparator
MaxPickKeyLen == 2        \* longest key of the dictionaries searched
MaxPickEntries == 4       \* most entries of the dictionaries searched

CmpByte == {0, 1, 255}
CmpBlocks == SeqsUpTo(CmpByte, MaxBlockLen)

CmpArgs(A, B, C) ==
    [A |-> A, B |-> B, C |-> C, done |-> FALSE, ab |-> 0, ba |-> 0, bc |-> 0, ac |-> 0]

CmpInit == \E A \in CmpBlocks, B \in CmpBlocks, C \in CmpBlocks : cmp = CmpArgs(A, B, C)

CmpCall ==
    /\ ~cmp.done
    /\ cmp' = [cmp EXCEPT !.done = TRUE,
                          !.ab = CompareMemoryBlocks(cmp.A, cmp.B),
                          !.ba = CompareMemoryBlocks(cmp.B, cmp.A),
                          !.bc = CompareMemoryBlocks(cmp.B, cmp.C),
                          !.ac = CompareMemoryBlocks(cmp.A, cmp.C)]

PickKeys == SeqsUpTo(KeyByte, MaxPickKeyLen)

\* the dictionary after Dictionary_Set of the keys ks[i..] in turn
RECURSIVE SetAll(_, _, _)
SetAll(d, ks, i) ==
    IF i > Len(ks) THEN d
    ELSE SetAll(Dictionary_Set(d, ks[i], [data |-> "null", bytes |-> <<>>, size |-> 0], "none").d,
                ks, i + 1)

Increasing(ks) ==
    \A i \in 1..(Len(ks) - 1) : CompareMemoryBlocks(ks[i], ks[i + 1]) < 0

PickArgs(d, key) == [d |-> d, key |-> key, done |-> FALSE, result |-> 0, pickedIndex |-> 0]

PickInit ==
    \E ks \in SeqsUpTo(PickKeys, MaxPickEntries), key \in PickKeys :
        /\ Increasing(ks)
        /\ search = PickArgs(SetAll(Dictionary_InitWithMinSize(1, 3), ks, 1), key)

PickCall ==
    /\ ~search.done
    /\ search' = [search EXCEPT !.done = TRUE,
                            !.result = Dictionary_PickEntryIndex(search.d, search.key).result,
                            !.pickedIndex = Dictionary_PickEntryIndex(search.d, search.key).pickedIndex]

\* ======================================================== Dictionary_Merge
VARIABLES
    msrc,     \* the _source dictionary of Dictionary_Merge (dict is _destination)
    mlast     \* the merge call that has not returned yet: op, overwrite, ret

MergeKeys == {<<>>, <<1>>, <<2>>}
MergeValues == {<<0>>, <<1>>}
MergeArgs == {[data |-> "ptr", bytes |-> b, size |-> Len(b)] : b \in MergeValues}
MergeDenials == {"none", "key"}

\* the (_data, _dataSize) pair Dictionary_Merge hands to Dictionary_Set for a
\* source entry: sourceEntry->data is a pointer, or NULL in an entry whose
\* data block was never allocated, and NULL is the reserved value 0
EntryArg(e) ==
    IF e.data = NULL THEN [data |-> "null", bytes |-> <<>>, size |-> e.dataSize]
    ELSE [data |-> "ptr", bytes |-> EntryData(e), size |-> e.dataSize]

\* the loop of Dictionary_Merge from sourceEntry = &entries[i] on; the
\* allocation deny is denied in the Dictionary_Set of entries[denyAt]
RECURSIVE MergeFrom(_, _, _, _, _, _)
RECURSIVE MergeAfterSet(_, _, _, _, _, _)
MergeAfterSet(r, src, i, overWriteValues, denyAt, deny) ==
    IF r.ret = "CRASH" THEN [d |-> r.d, ret |-> "CRASH"]
    ELSE IF r.ret = "NULL" THEN [d |-> r.d, ret |-> "false"]
    ELSE MergeFrom(r.d, src, i + 1, overWriteValues, denyAt, deny)

MergeFrom(dest, src, i, overWriteValues, denyAt, deny) ==
    IF ~(i < src.elementCount) THEN [d |-> dest, ret |-> "true"]
    ELSE IF overWriteValues
            \/ ~Dictionary_Get_Entry(dest, EntryKey(src.entries[i + 1])).found
         THEN MergeAfterSet(Dictionary_Set(dest, EntryKey(src.entries[i + 1]),
                                           EntryArg(src.entries[i + 1]),
                                           IF i = denyAt THEN deny ELSE "none"),
                            src, i, overWriteValues, denyAt, deny)
         ELSE MergeFrom(dest, src, i + 1, overWriteValues, denyAt, deny)

Dictionary_Merge(dest, src, overWriteValues, denyAt, deny) ==
    MergeFrom(dest, src, 0, overWriteValues, denyAt, deny)

MIdle == [op |-> "idle", overwrite |-> FALSE, ret |-> "none"]

MergeInit ==
    /\ \E n \in InitCounts, r \in InitRates : dict = Dictionary_InitWithMinSize(n, r)
    /\ \E n \in InitCounts, r \in InitRates : msrc = Dictionary_InitWithMinSize(n, r)
    /\ dlast = Idle
    /\ mlast = MIdle

\* a Dictionary_Set on the destination between merges
MergeSetDestination ==
    \E key \in MergeKeys, arg \in MergeArgs, deny \in MergeDenials :
        /\ mlast = MIdle
        /\ Dictionary_Set(dict, key, arg, deny).d.maxElementCount <= MaxElements
        /\ Dictionary_Set(dict, key, arg, deny).ret # "CRASH"
        /\ dict' = Dictionary_Set(dict, key, arg, deny).d
        /\ UNCHANGED <<msrc, mlast, dlast>>

\* a Dictionary_Set on the source between merges
MergeSetSource ==
    \E key \in MergeKeys, arg \in MergeArgs, deny \in MergeDenials :
        /\ mlast = MIdle
        /\ Dictionary_Set(msrc, key, arg, deny).d.maxElementCount <= MaxElements
        /\ Dictionary_Set(msrc, key, arg, deny).ret # "CRASH"
        /\ msrc' = Dictionary_Set(msrc, key, arg, deny).d
        /\ UNCHANGED <<dict, mlast, dlast>>

MergeCall ==
    \E overWriteValues \in BOOLEAN, denyAt \in 0..(MaxElements - 1), deny \in MergeDenials :
        /\ mlast = MIdle
        /\ Dictionary_Merge(dict, msrc, overWriteValues, denyAt, deny).d.maxElementCount <= MaxElements
        /\ dict' = Dictionary_Merge(dict, msrc, overWriteValues, denyAt, deny).d
        /\ mlast' = [op |-> "merge", overwrite |-> overWriteValues,
                     ret |-> Dictionary_Merge(dict, msrc, overWriteValues, denyAt, deny).ret]
        /\ UNCHANGED <<msrc, dlast>>

MergeReturn ==
    /\ mlast # MIdle
    /\ mlast.ret # "CRASH"
    /\ mlast' = MIdle
    /\ UNCHANGED <<dict, msrc, dlast>>

MergeNext == MergeSetDestination \/ MergeSetSource \/ MergeCall \/ MergeReturn

\* =========================== BinaryBuilder_InsertBytes from its own content
\* the bytes BinaryBuilder_InsertBytes reads at _source = data + at, a
\* pointer into the builder's own block taken before the call: the read
\* comes after the reservation, and when the reservation moved the block
\* _source points into the block realloc freed (stale is what is read there)
InsideSourceBytes(b, mem, at, length, denied, move, stale) ==
    IF BinaryBuilder_ReserveSize(b, mem, IF b.writePtr >= b.endPtr THEN length ELSE length * 2,
                                 denied, move).b.data # b.data
    THEN stale
    ELSE SubSeq(mem, at + 1, at + length)

\* BinaryBuilder_InsertBytes(b, b->data + at, length) with the source range
\* inside the content
BbInsertInside ==
    /\ BReady
    /\ \E at \in 0..BbMaxCap, length \in 1..MaxSrcLen, denied \in BOOLEAN, move \in BOOLEAN,
          stale \in Sources :
         /\ Len(stale) = length
         /\ at + length <= bb.endPtr - bb.data
         /\ BApply(BinaryBuilder_InsertBytes(
                       bb, bmem,
                       PtrSource(InsideSourceBytes(bb, bmem, at, length, denied, move, stale)),
                       length, denied, move),
                   "insertInside", SubSeq(bmem, at + 1, at + length), length,
                   BinaryBuilder_InsertBytes(
                       bb, bmem,
                       PtrSource(InsideSourceBytes(bb, bmem, at, length, denied, move, stale)),
                       length, denied, move).ret = true,
                   BbMaxCap)

BbInsideNext == BbNext \/ BbInsertInside

\* ============================ DynamicArray_GetElementNumberContainingValue
\* finder holds a dynamicarray_t, a starting element number and a value
\* handed to DynamicArray_GetElementNumberContainingValue and, once the call
\* is made, its result.
VARIABLE finder

MaxFindCount == 3               \* most elements of the arrays searched
MaxFindStart == 4               \* largest starting element number tried
FindElementSizes == {1, 2}      \* the element sizes of the arrays searched
FindByte == {0, 1}
\* size_t arithmetic wraps at SizeTop; the width is scaled down to 30 bits,
\* which keeps what matters here: 0 - 1 wraps to a value no array reaches
SizeTop == 2 ^ 30

\* the elementSize bytes of the element at a 0-based index
ElementBytes(object, index) ==
    SubSeq(object.array, index * object.elementSize + 1, (index + 1) * object.elementSize)

\* the loop of lines 140-150: elementPtr walks from the element at index to
\* endPtr while elementIndex counts the elements visited
RECURSIVE FindLoop(_, _, _, _)
FindLoop(object, index, elementIndex, value) ==
    IF index >= object.elementCount THEN 0
    ELSE IF ElementBytes(object, index) = value THEN elementIndex
    ELSE FindLoop(object, index + 1, elementIndex + 1, value)

DynamicArray_GetElementNumberContainingValue(object, startingElementNumber, value) ==
    LET start0 == (startingElementNumber - 1) % SizeTop
    IN IF start0 >= object.elementCount THEN 0
       ELSE FindLoop(object, start0, 1, value)

FindArrays ==
    {[array |-> a, elementCount |-> n, elementSize |-> s] :
        <<n, s, a>> \in {t \in (0..MaxFindCount) \X FindElementSizes
                                \X SeqsUpTo(FindByte, MaxFindCount * 2) :
                            Len(t[3]) = t[1] * t[2]}}

FindArgs(object, start, value) ==
    [object |-> object, start |-> start, value |-> value, done |-> FALSE, ret |-> 0]

FindInit ==
    \E object \in FindArrays, start \in 0..MaxFindStart :
        \E value \in [1..object.elementSize -> FindByte] :
            finder = FindArgs(object, start, value)

FindCall ==
    /\ ~finder.done
    /\ finder' = [finder EXCEPT
                    !.done = TRUE,
                    !.ret = DynamicArray_GetElementNumberContainingValue(
                                finder.object, finder.start, finder.value)]

\* ================================== who owns the dictionary's key and data
\* buffers.  own is a dictionary whose entries hold the addresses of their
\* key and data buffers (0 is NULL) next to the heap they point into: live is
\* the set of allocated buffers and bytes[a] the key byte stored at address
\* a.  Every key and every value handed in has one byte and every allocation
\* succeeds, so keySize, keyMaxSize and dataMaxSize are 1 in every entry that
\* was written and the realloc branches of Dictionary_Set are not taken.
\* fault is set by a free of, or a store into, a buffer that is not
\* allocated; the program is followed no further from there.
VARIABLE own

MaxBuffers == 8             \* addresses 1..MaxBuffers of the heap
MaxOwnSlots == 3            \* largest entry array
Buffers == 1..MaxBuffers
OwnKeyBytes == {1, 2, 3}    \* the one-byte keys handed in
OwnInitCounts == {1, 3}     \* the _minElementCount arguments
OwnRate == 3                \* _expansionRate 0.5, kept as rate + 1.0

NullSlot == [key |-> 0, data |-> 0]

\* malloc/calloc: the lowest address that is not allocated
NewBuffer(live) == CHOOSE a \in Buffers \ live : \A b \in Buffers \ live : a <= b

\* the keys of the entries in use, as Dictionary_PickEntryIndex reads them
OwnKeys(o) ==
    [entries |-> [i \in 1..o.elementCount |->
                    IF o.entries[i].key = 0 THEN [key |-> <<>>, keySize |-> 0]
                    ELSE [key |-> <<o.bytes[o.entries[i].key]>>, keySize |-> 1]],
     elementCount |-> o.elementCount]

\* a store through a pointer: it faults when the buffer is not allocated
Stored(o, a) == IF a \in o.live THEN o ELSE [o EXCEPT !.fault = TRUE]

\* lines 258-279 for a value of one byte: the store into _entry->data
Own_SetData(o, idx) == Stored(o, o.entries[idx + 1].data)

\* lines 225-255: the key and data buffers of the entry at idx, then the count.
\* A buffer the entry has already is written through its pointer, a missing
\* one is allocated first
Own_Set_Data(o1, idx, keyAt, e) ==
    LET dataAt == IF e.data = 0 THEN NewBuffer(o1.live) ELSE e.data
    IN [o1 EXCEPT !.live = IF e.data = 0 THEN @ \cup {dataAt} ELSE @,
                  !.entries[idx + 1] = [key |-> keyAt, data |-> dataAt],
                  !.elementCount = @ + 1]

Own_Set_Key(o, idx, k, keyAt, e) ==
    Own_Set_Data([(IF e.key = 0 THEN [o EXCEPT !.live = @ \cup {keyAt}] ELSE Stored(o, keyAt))
                    EXCEPT !.bytes[keyAt] = k],
                 idx, keyAt, e)

Own_Set_Buffers(o, idx, k) ==
    Own_Set_Key(o, idx, k,
                IF o.entries[idx + 1].key = 0 THEN NewBuffer(o.live) ELSE o.entries[idx + 1].key,
                o.entries[idx + 1])

\* lines 207-223: room for one more entry, then the rotation
Own_Set_NewEntry(o, idx, k) ==
    LET n == IF o.maxElementCount < o.elementCount + 1
             THEN Expand(o.maxElementCount + 1, o.expansionRate)
             ELSE o.maxElementCount
        grown == o.entries \o Repeat(NullSlot, n - o.maxElementCount)
        shiftedCount == o.elementCount - idx
    IN Own_SetData(
         Own_Set_Buffers(
           [o EXCEPT !.maxElementCount = n,
                     !.entries = IF shiftedCount > 0
                                 THEN RotateRight(grown, idx, o.elementCount)
                                 ELSE grown],
           idx, k),
         idx)

Own_Set_Picked(o, pick, k) ==
    IF pick.result = 0 THEN Own_SetData(o, pick.pickedIndex)
    ELSE Own_Set_NewEntry(o, IF pick.result = 1 THEN pick.pickedIndex + 1
                             ELSE pick.pickedIndex, k)

Own_Set(o, k) == Own_Set_Picked(o, Dictionary_PickEntryIndex(OwnKeys(o), <<k>>), k)

\* the test of the linear scans: same size, same bytes
OwnSameKey(o, i, k) == o.entries[i + 1].key # 0 /\ o.bytes[o.entries[i + 1].key] = k

Own_DeleteKey(o, k) ==
    LET hits == {i \in 0..(o.elementCount - 1) : OwnSameKey(o, i, k)}
    IN IF hits = {} THEN o
       ELSE LET idx == CHOOSE i \in hits : \A j \in hits : i <= j
            IN [o EXCEPT !.entries = RotateLeft(o.entries, idx, o.elementCount),
                         !.elementCount = @ - 1]

Own_DeleteAllKeys(o) == [o EXCEPT !.elementCount = 0]

\* free(a): a is not allocated any more, and its content is junk from then
\* on; a free of a buffer that is not allocated faults
Freed(o, a, junk) ==
    IF a = 0 THEN o
    ELSE IF a \notin o.live THEN [o EXCEPT !.fault = TRUE]
    ELSE [o EXCEPT !.live = @ \ {a}, !.bytes[a] = IF junk THEN 0 ELSE @]

\* memmove(_entry, _entry + 1, shiftedElementCount entries) of line 117: the
\* entries after index move one place left and the last one stays where it was
ShiftEntriesLeft(entries, index, shifted) ==
    SubSeq(entries, 1, index) \o SubSeq(entries, index + 2, index + 1 + shifted)
        \o SubSeq(entries, index + shifted + 1, Len(entries))

\* lines 109-121: the matching entry at index is freed and taken out
Own_Free_Matched(o, index, junk) ==
    LET e == o.entries[index + 1]
        o1 == Freed(Freed(o, e.key, junk), e.data, junk)
        shifted == o.elementCount - 1 - index
    IN [o1 EXCEPT !.elementCount = @ - 1,
                  !.entries = IF shifted > 0 THEN ShiftEntriesLeft(@, index, shifted)
                              ELSE [@ EXCEPT ![index + 1] = NullSlot]]

\* the loop of Dictionary_Free_Entry, which goes on after a match
RECURSIVE Own_Free_Loop(_, _, _, _)
Own_Free_Loop(o, index, k, junk) ==
    IF o.fault \/ index >= o.elementCount THEN o
    ELSE IF ~OwnSameKey(o, index, k) THEN Own_Free_Loop(o, index + 1, k, junk)
    ELSE Own_Free_Loop(Own_Free_Matched(o, index, junk), index + 1, k, junk)

Dictionary_Free_Entry(o, k, junk) == Own_Free_Loop(o, 0, k, junk)

OwnInit ==
    \E n \in OwnInitCounts :
        own = [entries |-> Repeat(NullSlot, n), elementCount |-> 0,
               maxElementCount |-> n, expansionRate |-> OwnRate,
               live |-> {}, bytes |-> [a \in Buffers |-> 0],
               fault |-> FALSE, op |-> "init", key |-> 0]

\* the array grows no further than MaxOwnSlots entries
OwnHasRoom(o, k) ==
    \/ Dictionary_PickEntryIndex(OwnKeys(o), <<k>>).result = 0
    \/ o.elementCount < o.maxElementCount
    \/ Expand(o.maxElementCount + 1, o.expansionRate) <= MaxOwnSlots

OwnSet ==
    \E k \in OwnKeyBytes :
        /\ ~own.fault
        /\ OwnHasRoom(own, k)
        /\ own' = [Own_Set(own, k) EXCEPT !.op = "set", !.key = k]

OwnDeleteKey ==
    \E k \in OwnKeyBytes :
        /\ ~own.fault
        /\ own' = [Own_DeleteKey(own, k) EXCEPT !.op = "delete", !.key = k]

OwnDeleteAllKeys ==
    /\ ~own.fault
    /\ own' = [Own_DeleteAllKeys(own) EXCEPT !.op = "deleteAll", !.key = 0]

OwnFreeEntry ==
    \E k \in OwnKeyBytes, junk \in BOOLEAN :
        /\ ~own.fault
        /\ own' = [Dictionary_Free_Entry(own, k, junk) EXCEPT !.op = "free", !.key = k]

OwnNext == OwnSet \/ OwnDeleteKey \/ OwnDeleteAllKeys \/ OwnFreeEntry

\* ======================================================== SinglyLinkedList
\* sll is a td_SinglyLinkedList_info next to the heap its pointers go into:
\* nodes are addresses 1..MaxNodes (0 is NULL), live the allocated ones,
\* next[n] and data[n] the fields of the node at n.  A node's data is one
\* value: what the caller stored through the pointer SinglyLinkedList_AddNode
\* returned, or what malloc left there.  A freed node keeps its fields until
\* its address is allocated again.
\* sllast records the last call: op, ret, trueOnce, and order, the nodes
\* added and not deleted so far, oldest first, kept by the calls themselves.
VARIABLES sll, sllast

MaxNodes == 4
Nodes == 1..MaxNodes
SllData == {0, 1}
SllDenials == {"none", "node", "data"}
\* the InspectorFunction arguments, each given by the data values it accepts
Inspectors == SUBSET SllData

\* malloc(sizeof(td_SinglyLinkedList_node)): the lowest free address, or NULL
NewNode(l) ==
    IF Nodes \ l.live = {} THEN 0
    ELSE CHOOSE n \in Nodes \ l.live : \A m \in Nodes \ l.live : n <= m

SinglyLinkedList_AddNode(l, v, deny) ==
    LET newNode == IF deny = "node" THEN 0 ELSE NewNode(l)
    IN IF newNode = 0 \/ deny = "data" THEN [l |-> l, ret |-> 0]
       ELSE [l |-> [l EXCEPT !.live = @ \cup {newNode},
                             !.data[newNode] = v,
                             !.next = IF l.last # 0
                                      THEN [@ EXCEPT ![newNode] = 0, ![l.last] = newNode]
                                      ELSE [@ EXCEPT ![newNode] = 0],
                             !.first = IF l.first = 0 THEN newNode ELSE @,
                             !.last = newNode],
             ret |-> newNode]

SinglyLinkedList_DeleteAllNodes(l) ==
    IF l.first = 0 THEN l
    ELSE [l EXCEPT !.live = {}, !.first = 0, !.indexed = 0, !.last = 0]

\* lines 107-121 of the deletion: the pointers of info and of prev
SinglyLinkedList_Unlink_KeepLast(l, prev, node) ==
    [l EXCEPT !.first = IF l.first = node THEN l.next[node] ELSE @,
              !.next = IF prev # 0 THEN [@ EXCEPT ![prev] = l.next[node]] ELSE @]

SinglyLinkedList_Unlink(l, prev, node) ==
    LET first1 == IF l.first = node THEN l.next[node] ELSE l.first
    IN [l EXCEPT !.first = first1,
                 !.last = IF l.last = node THEN prev ELSE @,
                 !.indexed = IF l.indexed # node THEN @
                             ELSE IF l.last = node THEN first1 ELSE l.next[node],
                 !.next = IF prev # 0 THEN [@ EXCEPT ![prev] = l.next[node]] ELSE @]

\* the do-while loop of SinglyLinkedList_DeleteNodeByCondition from node on
RECURSIVE DeleteLoop(_, _, _, _, _, _)
DeleteLoop(l, prev, node, inspector, trueOnce, deletedCount) ==
    IF node = 0 THEN [l |-> l, ret |-> deletedCount]
    ELSE IF l.data[node] \notin inspector
    THEN DeleteLoop(l, node, l.next[node], inspector, trueOnce, deletedCount)
    ELSE IF trueOnce
    THEN [l |-> [SinglyLinkedList_Unlink(l, prev, node) EXCEPT !.live = @ \ {node}],
          ret |-> deletedCount + 1]
    ELSE DeleteLoop([SinglyLinkedList_Unlink(l, prev, node) EXCEPT !.live = @ \ {node}],
                    prev, l.next[node], inspector, trueOnce, deletedCount + 1)

SinglyLinkedList_DeleteNodeByCondition(l, inspector, trueOnce) ==
    IF l.first = 0 THEN [l |-> l, ret |-> 0]
    ELSE DeleteLoop(l, 0, l.first, inspector, trueOnce, 0)

\* the nodes of order that a deletion by inspector is to leave
RECURSIVE WithoutFirstMatch(_, _, _)
WithoutFirstMatch(order, data, inspector) ==
    IF order = <<>> THEN <<>>
    ELSE IF data[Head(order)] \in inspector THEN Tail(order)
    ELSE <<Head(order)>> \o WithoutFirstMatch(Tail(order), data, inspector)

RECURSIVE WithoutMatches(_, _, _)
WithoutMatches(order, data, inspector) ==
    IF order = <<>> THEN <<>>
    ELSE IF data[Head(order)] \in inspector THEN WithoutMatches(Tail(order), data, inspector)
    ELSE <<Head(order)>> \o WithoutMatches(Tail(order), data, inspector)

SllInit ==
    /\ sll = [first |-> 0, indexed |-> 0, last |-> 0,
              next |-> [n \in Nodes |-> 0], data |-> [n \in Nodes |-> 0], live |-> {}]
    /\ sllast = [op |-> "init", ret |-> 0, trueOnce |-> FALSE, removed |-> 0, order |-> <<>>]

SllAddNode ==
    \E v \in SllData, deny \in SllDenials :
        LET r == SinglyLinkedList_AddNode(sll, v, deny)
        IN /\ sll' = r.l
           /\ sllast' = [op |-> "add", ret |-> r.ret, trueOnce |-> FALSE, removed |-> 0,
                         order |-> IF r.ret = 0 THEN sllast.order
                                   ELSE sllast.order \o <<r.ret>>]

SllDeleteNodeByCondition ==
    \E inspector \in Inspectors, trueOnce \in BOOLEAN :
        LET r == SinglyLinkedList_DeleteNodeByCondition(sll, inspector, trueOnce)
            left == IF trueOnce THEN WithoutFirstMatch(sllast.order, sll.data, inspector)
                    ELSE WithoutMatches(sllast.order, sll.data, inspector)
        IN /\ sll' = r.l
           /\ sllast' = [op |-> "delete", ret |-> r.ret, trueOnce |-> trueOnce,
                         removed |-> Len(sllast.order) - Len(left), order |-> left]

SllDeleteAllNodes ==
    /\ sll' = SinglyLinkedList_DeleteAllNodes(sll)
    /\ sllast' = [op |-> "deleteAll", ret |-> 0, trueOnce |-> FALSE,
                  removed |-> Len(sllast.order), order |-> <<>>]

\* the caller points info->indexed at a node of the list
SllIndex ==
    \E n \in sll.live :
        /\ sll' = [sll EXCEPT !.indexed = n]
        /\ sllast' = [sllast EXCEPT !.op = "index", !.ret = 0, !.removed = 0]

SllNext == SllAddNode \/ SllDeleteNodeByCondition \/ SllDeleteAllNodes \/ SllIndex

\* ========================================================= specifications
\* inUse names what the program at hand works on
VARIABLE inUse

vars == <<dict, dlast, dsa, dmem, slast, bb, bmem, bown, blast, cmp, search, inUse, msrc, mlast, finder, own, sll, sllast>>

\* each specification runs the operations of one container from its
\* construction on; the other containers stay as constructed
DictAtRest == Dictionary_InitWithMinSize(1, 3)
DsaAtRest == DynamicStringArray_InitAll(1, 2, 3, 16)
BuilderAtRest == BinaryBuilder_InitWithMinSize(2, 3, 16)

DictParked ==
    /\ dict = DictAtRest
    /\ dlast = Idle

DsaParked ==
    /\ dsa = DsaAtRest.o
    /\ dmem = DsaAtRest.mem
    /\ slast = SIdle

BuilderParked ==
    /\ bb = BuilderAtRest.b
    /\ bmem = BuilderAtRest.mem
    /\ bown = "heap"
    /\ blast = BIdle

CmpParked == cmp = CmpArgs(<<>>, <<>>, <<>>)

PickParked == search = PickArgs(DictAtRest, <<>>)

dictVars == <<dict, dlast>>
dsaVars == <<dsa, dmem, slast>>
builderVars == <<bb, bmem, bown, blast>>
pureVars == <<cmp, search, inUse>>
extraVars == <<finder, own, sll, sllast>>
moreVars == <<msrc, mlast, extraVars>>

MergeParked == msrc = DictAtRest /\ mlast = MIdle

FindParked == finder = FindArgs([array |-> <<>>, elementCount |-> 0, elementSize |-> 1], 0, <<0>>)
OwnParked == own = [entries |-> <<>>, elementCount |-> 0, maxElementCount |-> 0,
                    expansionRate |-> OwnRate, live |-> {}, bytes |-> [a \in Buffers |-> 0],
                    fault |-> FALSE, op |-> "none", key |-> 0]
SllParked ==
    /\ sll = [first |-> 0, indexed |-> 0, last |-> 0,
              next |-> [n \in Nodes |-> 0], data |-> [n \in Nodes |-> 0], live |-> {}]
    /\ sllast = [op |-> "none", ret |-> 0, trueOnce |-> FALSE, removed |-> 0, order |-> <<>>]
ExtraParked == FindParked /\ OwnParked /\ SllParked
MoreParked == MergeParked /\ ExtraParked

PureParked == CmpParked /\ PickParked /\ MoreParked

DictStart == inUse = "dict" /\ DictInit /\ DsaParked /\ BuilderParked /\ PureParked

SpecDict == DictStart
            /\ [][DictNext /\ UNCHANGED <<dsaVars, builderVars, pureVars, moreVars>>]_vars

DsaStart == inUse = "dsa" /\ DsaInit /\ DictParked /\ BuilderParked /\ PureParked

SpecDsa == DsaStart
           /\ [][DsaNext /\ UNCHANGED <<dictVars, builderVars, pureVars, moreVars>>]_vars

BbStart == inUse = "builder" /\ BbInit /\ DictParked /\ DsaParked /\ PureParked

SpecBb == BbStart
          /\ [][BbNext /\ UNCHANGED <<dictVars, dsaVars, pureVars, moreVars>>]_vars

SbStart == inUse = "builder" /\ SbInit /\ DictParked /\ DsaParked /\ PureParked

SpecSb == SbStart
          /\ [][SbNext /\ UNCHANGED <<dictVars, dsaVars, pureVars, moreVars>>]_vars

\* a program that constructs one container, whichever it is, and runs its
\* operations
ContainersInit == DictStart \/ DsaStart \/ BbStart

ContainersNext ==
    \/ inUse = "dict" /\ DictNext /\ UNCHANGED <<dsaVars, builderVars, pureVars, moreVars>>
    \/ inUse = "dsa" /\ DsaNext /\ UNCHANGED <<dictVars, builderVars, pureVars, moreVars>>
    \/ inUse = "builder" /\ BbNext /\ UNCHANGED <<dictVars, dsaVars, pureVars, moreVars>>

SpecContainers == ContainersInit /\ [][ContainersNext]_vars

\* the comparator applied to blocks drawn from CmpBlocks
CompareStart == inUse = "comparator" /\ CmpInit /\ PickParked /\ MoreParked /\ DictParked /\ DsaParked /\ BuilderParked

SpecCompare == CompareStart
               /\ [][CmpCall /\ UNCHANGED <<dictVars, dsaVars, builderVars, search, inUse, moreVars>>]_vars

\* the search applied to sorted dictionaries and keys drawn from PickKeys
PickStart == inUse = "search" /\ PickInit /\ CmpParked /\ MoreParked /\ DictParked /\ DsaParked /\ BuilderParked

SpecPick == PickStart
            /\ [][PickCall /\ UNCHANGED <<dictVars, dsaVars, builderVars, cmp, inUse, moreVars>>]_vars

\* Dictionary_Merge between two dictionaries that Dictionary_Set fills
MergeStart ==
    /\ inUse = "merge" /\ MergeInit
    /\ DsaParked /\ BuilderParked /\ CmpParked /\ PickParked /\ ExtraParked

SpecMerge == MergeStart
             /\ [][MergeNext /\ UNCHANGED <<dsaVars, builderVars, pureVars, extraVars>>]_vars

\* the byte buffer builder with insertions whose source is its own content
BbInsideStart == BbStart

SpecBbInside == BbInsideStart
                /\ [][BbInsideNext /\ UNCHANGED <<dictVars, dsaVars, pureVars, moreVars>>]_vars

\* DynamicArray_GetElementNumberContainingValue applied to arrays drawn from
\* FindArrays
FindStart ==
    /\ inUse = "find" /\ FindInit
    /\ DictParked /\ DsaParked /\ BuilderParked /\ CmpParked /\ PickParked /\ MergeParked
    /\ OwnParked /\ SllParked

SpecFind == FindStart
            /\ [][FindCall /\ UNCHANGED <<dictVars, dsaVars, builderVars, pureVars, msrc, mlast, own, sll, sllast>>]_vars

\* the dictionary with the addresses of its entries' buffers
OwnStart ==
    /\ inUse = "own" /\ OwnInit
    /\ DictParked /\ DsaParked /\ BuilderParked /\ CmpParked /\ PickParked /\ MergeParked
    /\ FindParked /\ SllParked

SpecOwn == OwnStart
           /\ [][OwnNext /\ UNCHANGED <<dictVars, dsaVars, builderVars, pureVars, msrc, mlast, finder, sll, sllast>>]_vars

\* the singly linked list
SllStart ==
    /\ inUse = "list" /\ SllInit
    /\ DictParked /\ DsaParked /\ BuilderParked /\ CmpParked /\ PickParked /\ MergeParked
    /\ FindParked /\ OwnParked

SpecSll == SllStart
           /\ [][SllNext /\ UNCHANGED <<dictVars, dsaVars, builderVars, pureVars, msrc, mlast, finder, own>>]_vars
\* ------------------------------------------------- dictionary: properties
\* the live entries entries[0..elementCount) as key bytes and value bytes
RECURSIVE LiveFrom(_, _)
LiveFrom(d, i) ==
    IF i > d.elementCount THEN <<>>
    ELSE <<[k |-> EntryKey(d.entries[i]), v |-> EntryData(d.entries[i])]>> \o LiveFrom(d, i + 1)

Live(d) == LiveFrom(d, 1)

Sorted(d) ==
    \A i \in 1..(d.elementCount - 1) :
        CompareMemoryBlocks(EntryKey(d.entries[i]), EntryKey(d.entries[i + 1])) < 0

Present(d, key) ==
    \E i \in 1..d.elementCount : CompareMemoryBlocks(key, EntryKey(d.entries[i])) = 0

PtrArg(b) == [data |-> "ptr", bytes |-> b, size |-> Len(b)]

\* C1: after any sequence of Dictionary_Set, Dictionary_DeleteKey and
\* Dictionary_DeleteAllKeys calls the live entries are strictly increasing
\* under the magnitude comparator.
C1_SortedAlways == Sorted(dict)

\* C2: a Dictionary_Set(k, v) that returns the data pointer, followed
\* immediately by Dictionary_Get(k), yields size |v| and the bytes of v, in
\* every state the dictionary can be in between two calls, for every key and value (also the
\* empty value).
C2_RoundTrip ==
    dlast = Idle => \A key \in Keys, b \in DataBytes, deny \in Denials :
        LET r == Dictionary_Set(dict, key, PtrArg(b), deny)
            g == Dictionary_Get(r.d, key)
        IN r.ret = "data" => g.found /\ g.ret = "data" /\ g.size = Len(b) /\ g.bytes = b

\* a set of a non-empty value returned and the value reads back, next to
\* another entry
C2_Witness ==
    /\ dlast.op = "set" /\ dlast.ret = "data"
    /\ dict.elementCount = 2
    /\ Dictionary_Get(dict, dlast.key).bytes = <<1>>

\* C3: if Dictionary_Get(k) finds an entry, Dictionary_DeleteKey(k) returns
\* true, the entry count drops by one and Dictionary_Get(k) then reports
\* not-found.
C3_DeleteLocatesLikeGet ==
    [][(dlast'.op = "delete" /\ Dictionary_Get(dict, dlast'.key).found)
        => /\ dlast'.ret = "true"
           /\ dict'.elementCount = dict.elementCount - 1
           /\ ~Dictionary_Get(dict', dlast'.key).found]_vars

\* C4: a Dictionary_Set that returns NULL leaves the entry count, the order
\* of the live entries and every live key and value as they were.
C4_FailedSetChangesNothing ==
    [][(dlast'.op = "set" /\ dlast'.ret = "NULL")
        => /\ dict'.elementCount = dict.elementCount
           /\ Live(dict') = Live(dict)]_vars

C6_DeleteAbsentKey ==
    [][(dlast'.op = "delete" /\ ~Present(dict, dlast'.key))
        => dlast'.ret = "false" /\ dict' = dict]_vars

\* a delete of a key that no live entry holds returned, with entries live
C6_Witness ==
    /\ dlast.op = "delete" /\ dlast.ret = "false"
    /\ dict.elementCount >= 1
    /\ ~Present(dict, dlast.key)
\* ------------------------------------------- DynamicStringArray: properties
\* the strings the index entries 0..elementCount-1 resolve to
RECURSIVE StringsFrom(_, _, _)
StringsFrom(o, mem, i) ==
    IF i >= o.elementCount THEN <<>>
    ELSE <<CStr(o, mem, o.array[i + 1])>> \o StringsFrom(o, mem, i + 1)

Strings(o, mem) == StringsFrom(o, mem, 0)

Offset(o, i) == o.array[i + 1] - o.buffer

Dense(o, mem) ==
    \A i \in 0..(o.elementCount - 2) :
        Offset(o, i + 1) = Offset(o, i) + strlen(o, mem, o.array[i + 1]) + 1

\* C7: after any sequence of push, insert, delete, pop and clear calls the
\* index is dense: the offset of entry i+1 is the offset of entry i plus the
\* length of string i plus 1, for every i with i+1 < elementCount.
C7_DenseIndex == Dense(dsa, dmem)

\* an insert returned true and left three strings in the array
C7_Witness ==
    /\ slast.op = "insert" /\ slast.ret = "true"
    /\ dsa.elementCount = 3

\* the index a string at index i before an insert at index at has after it
After(i, at) == IF i < at THEN i ELSE i + 1

InBlock(o, mem, addr) == o.buffer <= addr /\ addr < o.buffer + Len(mem)

\* C8: when a push or insert makes the character buffer grow and realloc
\* returns a block at a different address, after the call every string
\* stored before resolves to the same bytes as before and every index entry
\* points into the new block.
C8_ReallocationTransparent ==
    [][(slast'.op \in {"push", "insert"} /\ dsa'.buffer # dsa.buffer)
        => /\ \A i \in 0..(dsa.elementCount - 1) :
                 CStr(dsa', dmem', dsa'.array[After(i, slast'.index) + 1])
                     = CStr(dsa, dmem, dsa.array[i + 1])
           /\ \A j \in 0..(dsa'.elementCount - 1) : InBlock(dsa', dmem', dsa'.array[j + 1])]_vars

\* an insert in front of two strings moved the buffer and returned true
C8_Witness ==
    /\ slast.op = "insert" /\ slast.moved /\ slast.ret = "true"
    /\ slast.index = 0
    /\ dsa.elementCount = 3

\* the C string a (_string, _length) argument denotes
RECURSIVE CStringOf(_)
CStringOf(string) ==
    IF string = <<>> \/ Head(string) = 0 THEN <<>>
    ELSE <<Head(string)>> \o CStringOf(Tail(string))

InsertAt(strings, i, t) == SubSeq(strings, 1, i) \o <<t>> \o SubSeq(strings, i + 1, Len(strings))

\* C9: an insert of a non-empty string t at an index i < n that returns true
\* turns the strings s_0..s_{n-1} into s_0..s_{i-1}, t, s_i..s_{n-1}, and the
\* element count grows by one.
C9_InsertAtIndex ==
    [][(slast'.op = "insert" /\ slast'.ret = "true")
        => /\ dsa'.elementCount = dsa.elementCount + 1
           /\ Strings(dsa', dmem') = InsertAt(Strings(dsa, dmem), slast'.index, CStringOf(slast'.string))]_vars

\* an insert of a two-character string between two strings returned true
C9_Witness ==
    /\ slast.op = "insert" /\ slast.ret = "true"
    /\ slast.index = 1 /\ Len(CStringOf(slast.string)) = 2
    /\ dsa.elementCount = 3


\* a call was made in this step
SCalled == slast = SIdle /\ slast' # SIdle

\* C15: an instance initialised with expansion rate 0 is fixed: an operation
\* that needs more capacity than the instance has fails and leaves the
\* capacity unchanged instead of reallocating
FixedAtRateZero ==
    (SCalled /\ dsa.expansionRate = 2) =>
        /\ dsa'.maxElementCount = dsa.maxElementCount
        /\ dsa'.bufferSize = dsa.bufferSize

C15_RateZeroIsFixed == [][FixedAtRateZero]_vars

\* ==================================================== builder properties
WriteOffset == BinaryBuilder_GetWriteOffset(bb)
UsedEnd == BinaryBuilder_GetCurrentSize(bb)

\* the content of a builder: the bytes in [0, usedEnd)
Content(b, mem) == SubSeq(mem, 1, b.endPtr - b.data)

\* a call was made in this step
BCalled == blast = BIdle /\ blast' # BIdle

\* C10: in every state from the return of StringBuilder_InitWithMinSize on,
\* the byte at data[usedEnd] is 0 and usedEnd is below the capacity
C10_TerminatorInvariant ==
    /\ UsedEnd < bb.capacity
    /\ bmem[UsedEnd + 1] = 0

\* C11: a successful StringBuilder_InsertString of a non-empty string s into
\* content c at write offset w gives c[0..w) + s + c[w..), returns w and
\* leaves the write offset at w + |s|
InsertStringAt ==
    (BCalled /\ blast'.op = "insertString" /\ blast'.ok /\ blast'.n > 0) =>
        LET c == Content(bb, bmem)
            w == WriteOffset
            s == blast'.src
        IN /\ Content(bb', bmem') = SubSeq(c, 1, w) \o s \o SubSeq(c, w + 1, Len(c))
           /\ blast'.ret = w
           /\ BinaryBuilder_GetWriteOffset(bb') = w + Len(s)

C11_InsertStringAtOffset == [][InsertStringAt]_vars

\* a two-character string was inserted in front of existing content
C11_Witness ==
    /\ blast.op = "insertString"
    /\ blast.ok
    /\ blast.n = 2
    /\ WriteOffset < UsedEnd

\* C12: StringBuilder_InsertCharacters with length 0 returns UINTPTR_MAX and
\* writes nothing
ZeroLengthInsert ==
    (BCalled /\ blast'.op = "insertCharacters" /\ blast'.n = 0) =>
        /\ blast'.ret = UINTPTR_MAX
        /\ bmem' = bmem
        /\ bb' = bb

C12_ZeroLengthInsertRefused == [][ZeroLengthInsert]_vars

\* C13: 0 <= write offset <= usedEnd <= capacity after any sequence of
\* reserve, set write offset, set used size, set byte(s), insert byte(s),
\* delete and clear
C13_CursorInvariant ==
    bown # "freed" =>
        /\ 0 <= WriteOffset
        /\ WriteOffset <= UsedEnd
        /\ UsedEnd <= bb.capacity

\* the buffer is full and the write offset is inside the content
C13_Witness ==
    /\ bown = "heap"
    /\ blast = BIdle
    /\ 0 < WriteOffset
    /\ WriteOffset < UsedEnd
    /\ UsedEnd = bb.capacity

WriteOps == {"setByte", "setBytes", "insertByte", "insertBytes"}

\* C14: a BinaryBuilder write that fails leaves capacity, content, write
\* offset and usedEnd as they were
FailedWrite ==
    (BCalled /\ blast'.op \in WriteOps /\ ~blast'.ok) =>
        /\ bb' = bb
        /\ bmem' = bmem

C14_FailedWriteChangesNothing == [][FailedWrite]_vars

\* a write of two bytes was refused on a builder that holds content
C14_Witness ==
    /\ blast.op = "setBytes"
    /\ ~blast.ok
    /\ blast.n = 2
    /\ UsedEnd > 0
    /\ WriteOffset < UsedEnd

\* the bytes a call needs the buffer to hold
Needed(op, n) ==
    IF op \in {"setByte", "setBytes"} THEN Max(UsedEnd, WriteOffset + n)
    ELSE UsedEnd + n

\* C16: after BinaryBuilder_InitUsingBuffer(buf, cap) data stays buf and
\* capacity stays cap, an operation that needs more than cap bytes fails, and
\* the buffer is never passed to realloc or free, not by
\* BinaryBuilder_FreeBuffer either
FixedStep ==
    (BCalled /\ bown = "caller") =>
        /\ bb'.data = bb.data
        /\ bb'.capacity = bb.capacity
        /\ bown' = "caller"
        /\ ~blast'.realloc
        /\ (blast'.op \in WriteOps \cup {"reserve"} /\ Needed(blast'.op, blast'.n) > bb.capacity)
               => ~blast'.ok

C16_FixedBufferMode == [][FixedStep]_vars

\* BinaryBuilder_FreeBuffer was called on a builder whose fixed buffer is full
C16_Witness ==
    /\ bown = "caller"
    /\ blast.op = "freeBuffer"
    /\ UsedEnd = bb.capacity
    /\ bb.capacity = 5

\* C18: BinaryBuilder_ReserveSize(n) on a growable builder leaves the
\* capacity alone when capacity - used >= n; otherwise a successful call makes
\* the capacity (capacity + n) * (1 + factor) truncated; a successful call
\* leaves capacity - used >= n and returns the write offset
ReservePolicy ==
    (BCalled /\ blast'.op = "reserve" /\ bb.expansionRate > 2) =>
        LET n == blast'.n
        IN /\ (bb.capacity - UsedEnd >= n) => (bb'.capacity = bb.capacity /\ blast'.ok)
           /\ (bb.capacity - UsedEnd < n /\ blast'.ok) =>
                  bb'.capacity = Expand(bb.capacity + n, bb.expansionRate)
           /\ blast'.ok =>
                  /\ bb'.capacity - BinaryBuilder_GetCurrentSize(bb') >= n
                  /\ blast'.ret = BinaryBuilder_GetWriteOffset(bb')
                  /\ blast'.ret = WriteOffset

CapacityKept ==
    /\ dict'.maxElementCount >= dict.maxElementCount
    /\ dsa'.maxElementCount >= dsa.maxElementCount
    /\ dsa'.bufferSize >= dsa.bufferSize
    /\ bb'.capacity >= bb.capacity

RECURSIVE Value(_)
Value(A) == IF A = <<>> THEN 0 ELSE Head(A) + 256 * Value(Tail(A))

Sign(n) == IF n < 0 THEN -1 ELSE IF n > 0 THEN 1 ELSE 0

\* C19: CompareMemoryBlocks(A, B) is -1, 0 or 1 as the little-endian
\* unsigned integer of A is less than, equal to or greater than that of B,
\* the shorter block zero-extended; blocks that differ only by trailing zero
\* bytes compare equal; the result is antisymmetric and transitive
C19_MagnitudeOrder ==
    cmp.done =>
        /\ cmp.ab = Sign(Value(cmp.A) - Value(cmp.B))
        /\ cmp.ba = -cmp.ab
        /\ (cmp.ab <= 0 /\ cmp.bc <= 0) => cmp.ac <= 0
        /\ (cmp.ab = 0 /\ cmp.bc = 0) => cmp.ac = 0
        /\ (cmp.B = cmp.A \o Zeros(Len(cmp.B) - Len(cmp.A))) => cmp.ab = 0

\* blocks of three lengths were compared: A is B with trailing zero bytes,
\* C is longer and larger
C19_Witness ==
    /\ cmp.done
    /\ cmp.A = <<255, 1>>
    /\ cmp.B = <<255, 1, 0>>
    /\ cmp.C = <<0, 255, 1>>
    /\ cmp.ab = 0
    /\ cmp.ac = -1

\* entry i (from 1) of the dictionary searched is below, equal to or above key
KeyAt(i) == EntryKey(search.d.entries[i])

\* p is a position with every live entry before it below the key and every
\* live entry at or after it above the key
InsertionPoint(p) ==
    /\ \A i \in 1..p : CompareMemoryBlocks(KeyAt(i), search.key) < 0
    /\ \A i \in (p + 1)..search.d.elementCount : CompareMemoryBlocks(KeyAt(i), search.key) > 0

\* the slot Dictionary_Set derives from the search
DerivedSlot == IF search.result = 1 THEN search.pickedIndex + 1 ELSE search.pickedIndex

\* C20: on a sorted dictionary Dictionary_PickEntryIndex returns 0 with the
\* index of the matching entry iff some live entry compares equal to the key;
\* otherwise the slot Dictionary_Set derives from it is the unique position
\* with every live entry before it below and every live entry from it on
\* above the key
C20_PickOnSorted ==
    search.done =>
        /\ (search.result = 0) <=> Present(search.d, search.key)
        /\ (search.result = 0) =>
               /\ search.pickedIndex < search.d.elementCount
               /\ CompareMemoryBlocks(search.key, KeyAt(search.pickedIndex + 1)) = 0
        /\ (search.result # 0) =>
               \A p \in 0..search.d.elementCount : InsertionPoint(p) <=> p = DerivedSlot

\* a key absent from a dictionary of four entries belongs between the
\* second and the third
C20_Witness ==
    /\ search.done
    /\ search.d.elementCount = 4
    /\ search.result # 0
    /\ DerivedSlot = 2

\* --------------------------------------------- Dictionary_Merge: property
SameValue(a, b) == a.size = b.size /\ a.bytes = b.bytes

MergedAsClaimed ==
    (mlast = MIdle /\ mlast'.op = "merge" /\ mlast'.ret = "true") =>
        /\ msrc' = msrc
        /\ \A key \in MergeKeys :
             IF Present(msrc, key)
             THEN /\ Dictionary_Get(dict', key).found
                  /\ IF mlast'.overwrite \/ ~Present(dict, key)
                     THEN SameValue(Dictionary_Get(dict', key), Dictionary_Get(msrc, key))
                     ELSE SameValue(Dictionary_Get(dict', key), Dictionary_Get(dict, key))
             ELSE Present(dict, key) =>
                      /\ Dictionary_Get(dict', key).found
                      /\ SameValue(Dictionary_Get(dict', key), Dictionary_Get(dict, key))

\* C21: after a Dictionary_Merge that returns true every key of the source
\* is in the destination, with the source's value if overWriteValues is true
\* or the destination did not hold the key and with the destination's old
\* value otherwise; the other keys of the destination keep their values and
\* the source is unchanged.
C21_MergeResult == [][MergedAsClaimed]_vars

\* ------------------------------------ BinaryBuilder_InsertBytes: property
InsertedAt ==
    (BCalled /\ blast'.op \in {"insertBytes", "insertInside"} /\ blast'.ok /\ blast'.n > 0) =>
        /\ Content(bb', bmem') = SubSeq(Content(bb, bmem), 1, WriteOffset) \o blast'.src
                                   \o SubSeq(Content(bb, bmem), WriteOffset + 1, UsedEnd)
        /\ BinaryBuilder_GetWriteOffset(bb') = WriteOffset + blast'.n
        /\ BinaryBuilder_GetCurrentSize(bb') = UsedEnd + blast'.n

\* C22: a successful BinaryBuilder_InsertBytes of n > 0 bytes b into content
\* c at write offset w gives c[0..w) + b + c[w..), write offset w + n and
\* usedEnd |c| + n, also when the source range is inside the content, b
\* then being the bytes the range held before the call
C22_InsertBytesAtOffset == [][InsertedAt]_vars

\* ----------------------------------------- BinaryBuilder_Delete: property
DeletedLeftOfCursor ==
    (BCalled /\ blast'.op = "delete") =>
        /\ blast'.ret = Min(blast'.n, WriteOffset)
        /\ Content(bb', bmem') = SubSeq(Content(bb, bmem), 1, WriteOffset - blast'.ret)
                                   \o SubSeq(Content(bb, bmem), WriteOffset + 1, UsedEnd)
        /\ BinaryBuilder_GetWriteOffset(bb') = WriteOffset - blast'.ret
        /\ BinaryBuilder_GetCurrentSize(bb') = UsedEnd - blast'.ret
        /\ bb'.capacity = bb.capacity

\* C23: BinaryBuilder_Delete(n) on content c with write offset w returns
\* d = min(n, w), gives c[0..w-d) + c[w..), write offset w - d and usedEnd
\* |c| - d, and keeps the capacity
C23_DeleteLeftOfCursor == [][DeletedLeftOfCursor]_vars

\* a deletion of two bytes was clamped to one and moved a tail
C23_Witness ==
    /\ blast.op = "delete"
    /\ blast.n = 2
    /\ blast.ret = 1
    /\ WriteOffset < UsedEnd

\* ------------------------------------ DynamicStringArray_Delete: property
RemoveAt(strings, i) == SubSeq(strings, 1, i) \o SubSeq(strings, i + 2, Len(strings))

DeletedAtIndex ==
    (SCalled /\ slast'.op = "delete") =>
        IF slast'.index < dsa.elementCount
        THEN /\ slast'.ret = "true"
             /\ Strings(dsa', dmem') = RemoveAt(Strings(dsa, dmem), slast'.index)
             /\ dsa'.usedSize = dsa.usedSize - (Len(Strings(dsa, dmem)[slast'.index + 1]) + 1)
        ELSE /\ slast'.ret = "false"
             /\ dsa'.elementCount = dsa.elementCount
             /\ dsa'.usedSize = dsa.usedSize
             /\ Strings(dsa', dmem') = Strings(dsa, dmem)

\* C24: DynamicStringArray_Delete(i) on s_0..s_{n-1} with i < n returns true
\* and leaves s_0..s_{i-1}, s_{i+1}..s_{n-1} with usedSize reduced by
\* |s_i| + 1; with i >= n it returns false and leaves element count,
\* usedSize and strings unchanged
C24_DeleteAtIndex == [][DeletedAtIndex]_vars

\* the middle one of three strings was deleted
C24_Witness ==
    /\ slast.op = "delete" /\ slast.ret = "true"
    /\ slast.index = 1
    /\ dsa.elementCount = 2

\* ---------------------------- DynamicStringArray_PushSubString: property
PushedTruncated ==
    (SCalled /\ slast'.op = "push") =>
        IF slast'.string = <<>> \/ slast'.string[1] = 0
        THEN /\ slast'.ret = "false"
             /\ dsa' = dsa
             /\ dmem' = dmem
        ELSE slast'.ret = "true" =>
                 /\ dsa'.elementCount = dsa.elementCount + 1
                 /\ Strings(dsa', dmem') = Append(Strings(dsa, dmem), CStringOf(slast'.string))
                 /\ dsa'.usedSize = dsa.usedSize + Len(CStringOf(slast'.string)) + 1
                 /\ dmem'[dsa'.usedSize] = 0

\* C25: DynamicStringArray_PushSubString(string, maxLength) stores as the new
\* last element the first L bytes of string and a terminator, L being the
\* position of the first zero byte within the first maxLength bytes or
\* maxLength if there is none; with maxLength 0 or an empty string it
\* returns false and changes nothing
C25_PushTruncates == [][PushedTruncated]_vars

\* a two-byte argument with a terminator in its second byte was pushed
\* behind another string
C25_Witness ==
    /\ slast.op = "push" /\ slast.ret = "true"
    /\ slast.string = <<1, 0>>
    /\ dsa.elementCount = 2

\* --------------------------- DynamicStringArray: failed push and insert
FailedAddChangesNothing ==
    (SCalled /\ slast'.op \in {"push", "insert"} /\ slast'.ret = "false") =>
        /\ dsa'.elementCount = dsa.elementCount
        /\ dsa'.usedSize = dsa.usedSize
        /\ Strings(dsa', dmem') = Strings(dsa, dmem)
        /\ dsa'.maxElementCount = dsa.maxElementCount
        /\ dsa'.bufferSize = dsa.bufferSize

\* C26: a push or insert that returns false leaves elementCount, usedSize,
\* the strings, maxElementCount and bufferSize as they were, also when the
\* index reservation succeeded and the buffer reservation then failed
C26_FailedAddChangesNothing == [][FailedAddChangesNothing]_vars

\* ---------------------------------- binarybuilder_t: documented invariant
\* C27: data <= writePtr <= endPtr <= data + capacity - 1 in every state of
\* a builder that owns a buffer: the used size stays below the capacity
C27_PointerInvariant ==
    bown # "freed" =>
        /\ bb.data <= bb.writePtr
        /\ bb.writePtr <= bb.endPtr
        /\ bb.endPtr <= bb.data + bb.capacity - 1

\* -------------------- DynamicArray_GetElementNumberContainingValue
\* the 1-based positions, in the whole array, of the elements at or after
\* position start whose bytes equal value
FindMatches(object, start, value) ==
    {k \in start..object.elementCount : ElementBytes(object, k - 1) = value}

\* C28: the call returns the 1-based element number, in the whole array, of
\* the first element at or after position start whose bytes equal value, and
\* 0 when there is none or start is outside 1..elementCount
C28_FindReturnsElementNumber ==
    finder.done =>
        LET found == FindMatches(finder.object, finder.start, finder.value)
        IN IF finder.start \in 1..finder.object.elementCount /\ found # {}
           THEN finder.ret \in found /\ \A k \in found : finder.ret <= k
           ELSE finder.ret = 0

\* ------------------------------------- dictionary: who owns which buffer
SlotPointers(o) == {o.entries[i].key : i \in 1..o.maxElementCount}
                       \cup {o.entries[i].data : i \in 1..o.maxElementCount}

\* C29: no two slots of the entry array hold the same non-null key buffer or
\* the same non-null data buffer, and no slot holds a buffer that was freed
C29_SingleOwnership ==
    /\ ~own.fault
    /\ \A i, j \in 1..own.maxElementCount :
        i # j =>
            /\ own.entries[i].key # 0 => own.entries[i].key # own.entries[j].key
            /\ own.entries[i].data # 0 => own.entries[i].data # own.entries[j].data
    /\ SlotPointers(own) \ {0} \subseteq own.live

\* ------------------------------------------------------ SinglyLinkedList
\* the nodes reached from node by next pointers; a walk longer than the heap
\* has nodes is in a cycle and ends with -1
RECURSIVE ChainFrom(_, _, _)
ChainFrom(l, node, fuel) ==
    IF node = 0 THEN <<>>
    ELSE IF fuel = 0 THEN <<-1>>
    ELSE <<node>> \o ChainFrom(l, l.next[node], fuel - 1)

Chain(l) == ChainFrom(l, l.first, MaxNodes)

\* C30: first is NULL iff last is NULL; the chain from first is acyclic, holds
\* exactly the nodes added and not deleted, oldest first, all of them
\* allocated, and ends at last, whose next is NULL; DeleteNodeByCondition
\* returns the number of nodes it removed, at most 1 when trueOnce is set,
\* the first matching node then being the one removed
C30_ListInvariant ==
    /\ (sll.first = 0) <=> (sll.last = 0)
    /\ Chain(sll) = sllast.order
    /\ \A i \in 1..Len(sllast.order) : sllast.order[i] \in sll.live
    /\ sll.last # 0 =>
        /\ sll.next[sll.last] = 0
        /\ sllast.order # <<>> /\ sllast.order[Len(sllast.order)] = sll.last
    /\ sllast.op = "delete" =>
        /\ sllast.ret = sllast.removed
        /\ sllast.trueOnce => sllast.ret <= 1

\* a deletion of every matching node took two nodes out, the last one among
\* them, and left a node behind
C30_Witness ==
    /\ sllast.op = "delete" /\ ~sllast.trueOnce /\ sllast.ret = 2
    /\ Len(sllast.order) = 1
    /\ sll.last = sll.first /\ sll.first # 0
====
